---- MODULE Spec2Model ----
(***************************************************************************)
(* Safe search-and-replace over serialized column values                   *)
(* (src/src/search_replace.py).  Text is a sequence of one-character       *)
(* strings; positions are 0-based as in the Python source.                 *)
(***************************************************************************)
EXTENDS Integers, Sequences, FiniteSets, TLC

VARIABLES
  value, search, replace,   \* the arguments of the function under call
  absent,                   \* the value argument is None
  pc, op, out,              \* position, function called, returned text
  db,                       \* the table as committed in the database
  conn,                     \* the connection: its open transaction
  session,                  \* the SearchReplaceSession
  run,                      \* locals of the running _execute_replace / undo
  backup                    \* the backup file on disk

callvars == <<value, search, replace, absent, pc, op, out>>
dbvars == <<db, conn, session, run, backup>>
vars == <<value, search, replace, absent, pc, op, out, db, conn, session, run, backup>>

(***************************************************************************)
(* Characters                                                              *)
(***************************************************************************)
QUOTE == "\""
BSLASH == "\\"
LF == "\n"
CR == "\r"
SP == " "

Digits == {"0", "1", "2", "3", "4", "5", "6", "7", "8", "9"}

DigitVal(c) ==
  CASE c = "0" -> 0 [] c = "1" -> 1 [] c = "2" -> 2 [] c = "3" -> 3
    [] c = "4" -> 4 [] c = "5" -> 5 [] c = "6" -> 6 [] c = "7" -> 7
    [] c = "8" -> 8 [] c = "9" -> 9

DigitChar(d) ==
  CASE d = 0 -> "0" [] d = 1 -> "1" [] d = 2 -> "2" [] d = 3 -> "3"
    [] d = 4 -> "4" [] d = 5 -> "5" [] d = 6 -> "6" [] d = 7 -> "7"
    [] d = 8 -> "8" [] d = 9 -> "9"

(***************************************************************************)
(* Python str primitives: indexing, slicing, find, startswith, replace,    *)
(* int(), str(int)                                                         *)
(***************************************************************************)
At(s, i) == s[i + 1]

\* s[a:b] for 0 <= a
Slice(s, a, b) ==
  LET hi == IF b > Len(s) THEN Len(s) ELSE b
  IN IF a >= hi THEN <<>> ELSE SubSeq(s, a + 1, hi)

\* s.startswith(p, i)
StartsWithAt(s, p, i) == i + Len(p) <= Len(s) /\ Slice(s, i, i + Len(p)) = p

RECURSIVE Find(_, _, _)
\* s.find(sub, start): lowest index >= start where sub occurs, else -1
Find(s, sub, start) ==
  IF start + Len(sub) > Len(s) THEN -1
  ELSE IF StartsWithAt(s, sub, start) THEN start
  ELSE Find(s, sub, start + 1)

RECURSIVE ReplaceFrom(_, _, _, _)
ReplaceFrom(s, old, new, i) ==
  IF i >= Len(s) THEN <<>>
  ELSE IF StartsWithAt(s, old, i) THEN new \o ReplaceFrom(s, old, new, i + Len(old))
  ELSE <<At(s, i)>> \o ReplaceFrom(s, old, new, i + 1)

RECURSIVE Interleave(_, _, _)
Interleave(s, new, i) ==
  IF i >= Len(s) THEN new
  ELSE new \o <<At(s, i)>> \o Interleave(s, new, i + 1)

\* a replace that stops after the first occurrence (what C5 rules out)
StrReplaceFirst(s, old, new) ==
  IF Len(old) = 0 \/ Find(s, old, 0) = -1 THEN s
  ELSE Slice(s, 0, Find(s, old, 0)) \o new \o Slice(s, Find(s, old, 0) + Len(old), Len(s))

\* s.replace(old, new): every non-overlapping occurrence, left to right;
\* an empty old matches before every character and at the end
StrReplace(s, old, new) ==
  IF Len(old) = 0 THEN Interleave(s, new, 0) ELSE ReplaceFrom(s, old, new, 0)

RECURSIVE CountFrom(_, _, _)
\* s.count(sub) for non-empty sub
CountFrom(s, sub, i) ==
  IF i + Len(sub) > Len(s) THEN 0
  ELSE IF StartsWithAt(s, sub, i) THEN 1 + CountFrom(s, sub, i + Len(sub))
  ELSE CountFrom(s, sub, i + 1)

Contains(s, sub) == Find(s, sub, 0) # -1

IsSpace(c) == c \in {SP, LF, CR, "\t"}

RECURSIVE LStrip(_)
LStrip(s) == IF Len(s) > 0 /\ IsSpace(s[1]) THEN LStrip(Tail(s)) ELSE s

RECURSIVE RStrip(_)
RStrip(s) ==
  IF Len(s) > 0 /\ IsSpace(s[Len(s)]) THEN RStrip(SubSeq(s, 1, Len(s) - 1)) ELSE s

AllDigits(s) == Len(s) > 0 /\ \A k \in 1..Len(s) : s[k] \in Digits

\* digits with single underscores between them (PEP 515)
DigitGroups(s) ==
  /\ Len(s) > 0
  /\ s[1] \in Digits
  /\ s[Len(s)] \in Digits
  /\ \A k \in 1..Len(s) : s[k] \in Digits \cup {"_"}
  /\ \A k \in 1..(Len(s) - 1) : ~(s[k] = "_" /\ s[k + 1] = "_")

IntBody(s) ==
  LET t == RStrip(LStrip(s))
  IN IF Len(t) > 0 /\ t[1] \in {"+", "-"} THEN Tail(t) ELSE t

\* int(s) does not raise ValueError
IntValid(s) == DigitGroups(IntBody(s))

RECURSIVE DigitsValue(_, _)
DigitsValue(s, acc) ==
  IF Len(s) = 0 THEN acc
  ELSE IF s[1] = "_" THEN DigitsValue(Tail(s), acc)
  ELSE DigitsValue(Tail(s), acc * 10 + DigitVal(s[1]))

\* int(s) for IntValid(s)
IntParse(s) ==
  LET t == RStrip(LStrip(s))
      m == DigitsValue(IntBody(s), 0)
  IN IF Len(t) > 0 /\ t[1] = "-" THEN 0 - m ELSE m

RECURSIVE NatStr(_)
NatStr(n) == IF n < 10 THEN <<DigitChar(n)>> ELSE NatStr(n \div 10) \o <<DigitChar(n % 10)>>

\* str(n) / f'{n}'
IntStr(n) == IF n < 0 THEN <<"-">> \o NatStr(0 - n) ELSE NatStr(n)

(***************************************************************************)
(* Format classifier: _is_php_serialized                                   *)
(***************************************************************************)
RECURSIVE DigitRunEnd(_, _)
\* index just past the run of digits that starts at i (\d+ is followed by a
\* non-digit in every pattern, so the run is always the maximal one)
DigitRunEnd(s, i) ==
  IF i < Len(s) /\ At(s, i) \in Digits THEN DigitRunEnd(s, i + 1) ELSE i

\* '$' without re.MULTILINE: end of text, or just before a final newline
EndOk(s, p) == p = Len(s) \/ (p = Len(s) - 1 /\ At(s, p) = LF)

\* r'^a:\d+:\{.*\}$'
MatchArray(s) ==
  /\ StartsWithAt(s, <<"a", ":">>, 0)
  /\ LET e == DigitRunEnd(s, 2)
     IN /\ e > 2
        /\ StartsWithAt(s, <<":", "{">>, e)
        /\ \E q \in (e + 2)..(Len(s) - 1) : At(s, q) = "}" /\ EndOk(s, q + 1)

\* r'^s:\d+:".*";$'
MatchString(s) ==
  /\ StartsWithAt(s, <<"s", ":">>, 0)
  /\ LET e == DigitRunEnd(s, 2)
     IN /\ e > 2
        /\ StartsWithAt(s, <<":", QUOTE>>, e)
        /\ \E q \in (e + 2)..(Len(s) - 2) :
             StartsWithAt(s, <<QUOTE, ";">>, q) /\ EndOk(s, q + 2)

\* r'^i:\d+;$'
MatchInteger(s) ==
  /\ StartsWithAt(s, <<"i", ":">>, 0)
  /\ LET e == DigitRunEnd(s, 2)
     IN e > 2 /\ StartsWithAt(s, <<";">>, e) /\ EndOk(s, e + 1)

\* r'^b:[01];$'
MatchBoolean(s) ==
  /\ StartsWithAt(s, <<"b", ":">>, 0)
  /\ Len(s) >= 4
  /\ At(s, 2) \in {"0", "1"}
  /\ At(s, 3) = ";"
  /\ EndOk(s, 4)

\* r'^O:\d+:".*":\d+:\{.*\}$'
MatchObject(s) ==
  /\ StartsWithAt(s, <<"O", ":">>, 0)
  /\ LET e == DigitRunEnd(s, 2)
     IN /\ e > 2
        /\ StartsWithAt(s, <<":", QUOTE>>, e)
        /\ \E q \in (e + 2)..(Len(s) - 1) :
             /\ StartsWithAt(s, <<QUOTE, ":">>, q)
             /\ LET e2 == DigitRunEnd(s, q + 2)
                IN /\ e2 > q + 2
                   /\ StartsWithAt(s, <<":", "{">>, e2)
                   /\ \E q2 \in (e2 + 2)..(Len(s) - 1) :
                        At(s, q2) = "}" /\ EndOk(s, q2 + 1)

_is_php_serialized(s) ==
  /\ Len(s) > 0
  /\ \/ MatchArray(s)
     \/ MatchString(s)
     \/ MatchInteger(s)
     \/ MatchBoolean(s)
     \/ MatchObject(s)

(***************************************************************************)
(* PHP rewriter: _fix_php_serialized_lengths_wordpress and                 *)
(* _replace_in_php_serialized                                              *)
(***************************************************************************)
\* the import of the optional phpserialize package failed (the except branch)
PHPSERIALIZE_AVAILABLE == FALSE

\* what may follow the closing '";' of a string token
ValidFollower(s, after_pos) ==
  \/ StartsWithAt(s, <<"s", ":">>, after_pos)
  \/ StartsWithAt(s, <<"i", ":">>, after_pos)
  \/ StartsWithAt(s, <<"b", ":">>, after_pos)
  \/ StartsWithAt(s, <<"d", ":">>, after_pos)
  \/ StartsWithAt(s, <<"a", ":">>, after_pos)
  \/ StartsWithAt(s, <<"O", ":">>, after_pos)
  \/ StartsWithAt(s, <<"N", ";">>, after_pos)
  \/ StartsWithAt(s, <<"}">>, after_pos)

\* a boundary search that takes the first '";' whatever follows it (what C23
\* rules out)
FirstCloser(s, search_pos) ==
  IF search_pos >= Len(s) THEN -1 ELSE Find(s, <<QUOTE, ";">>, search_pos)

RECURSIVE FindContentEnd(_, _)
\* the inner while loop: content_end, or -1 when no '";' is accepted
FindContentEnd(s, search_pos) ==
  IF search_pos >= Len(s) THEN -1
  ELSE LET quote_semicolon_pos == Find(s, <<QUOTE, ";">>, search_pos)
           after_pos == quote_semicolon_pos + 2
       IN IF quote_semicolon_pos = -1 THEN -1
          ELSE IF after_pos >= Len(s) THEN quote_semicolon_pos
          ELSE IF ValidFollower(s, after_pos) THEN quote_semicolon_pos
          ELSE FindContentEnd(s, quote_semicolon_pos + 1)

\* the test for 's:<length>:"' at position i: content_start, or -1 when the
\* character at i is copied through without a search for the closing '";'
Header(s, i) ==
  IF ~(i + 1 < Len(s) /\ Slice(s, i, i + 2) = <<"s", ":">>) THEN -1
  ELSE LET length_start == i + 2
           length_end == Find(s, <<":">>, length_start)
       IN IF length_end = -1 THEN -1
          ELSE IF ~IntValid(Slice(s, length_start, length_end)) THEN -1
          ELSE LET quote_pos == length_end + 1
               IN IF quote_pos >= Len(s) \/ At(s, quote_pos) # QUOTE THEN -1
                  ELSE quote_pos + 1

\* the candidate test at position i: tok says whether a string token is
\* resolved there, the rest is where its length field and content lie
Candidate(s, i) ==
  LET no == [tok |-> FALSE, length_start |-> 0, length_end |-> 0,
             content_start |-> 0, content_end |-> 0]
  IN IF ~(i + 1 < Len(s) /\ Slice(s, i, i + 2) = <<"s", ":">>) THEN no
     ELSE LET length_start == i + 2
              length_end == Find(s, <<":">>, length_start)
          IN IF length_end = -1 THEN no
             ELSE IF ~IntValid(Slice(s, length_start, length_end)) THEN no
             ELSE LET quote_pos == length_end + 1
                  IN IF quote_pos >= Len(s) \/ At(s, quote_pos) # QUOTE THEN no
                     ELSE LET content_start == quote_pos + 1
                              content_end == FindContentEnd(s, content_start)
                          IN IF content_end = -1 THEN no
                             ELSE [tok |-> TRUE, length_start |-> length_start,
                                   length_end |-> length_end,
                                   content_start |-> content_start,
                                   content_end |-> content_end]

\* a rebuild that loses the closing quote (what C8 rules out)
RebuildTokenOpen(content) ==
  <<"s", ":">> \o IntStr(Len(content)) \o <<":", QUOTE>> \o content \o <<";">>

\* a rebuild that wraps the content in a second pair of quotes (what C27
\* rules out)
RebuildTokenQuoted(content) ==
  <<"s", ":">> \o IntStr(Len(content)) \o <<":", QUOTE, QUOTE>> \o content
    \o <<QUOTE, QUOTE, ";">>

\* f's:{actual_length}:"{content}";'
RebuildToken(content) ==
  <<"s", ":">> \o IntStr(Len(content)) \o <<":", QUOTE>> \o content \o <<QUOTE, ";">>

RECURSIVE FixFrom(_, _)
\* a scan that gives up at a candidate without a closing delimiter (what C25
\* rules out)
FixFromStopping(s, i) ==
  IF i >= Len(s) THEN <<>>
  ELSE LET c == Candidate(s, i)
       IN IF c.tok
          THEN RebuildToken(Slice(s, c.content_start, c.content_end))
                 \o FixFrom(s, c.content_end + 2)
          ELSE IF Header(s, i) # -1 THEN <<>>
          ELSE <<At(s, i)>> \o FixFrom(s, i + 1)

\* the outer while loop from position i on
FixFrom(s, i) ==
  IF i >= Len(s) THEN <<>>
  ELSE LET c == Candidate(s, i)
       IN IF c.tok
          THEN RebuildToken(Slice(s, c.content_start, c.content_end))
                 \o FixFrom(s, c.content_end + 2)
          ELSE <<At(s, i)>> \o FixFrom(s, i + 1)

_fix_php_serialized_lengths_wordpress(s) == FixFrom(s, 0)

\* a replacement that never repairs the declared lengths (what C2 rules out)
_replace_in_php_serialized_unrepaired(s, search_term, replace_term) ==
  StrReplace(s, search_term, replace_term)

_replace_in_php_serialized(s, search_term, replace_term) ==
  LET new_data == StrReplace(s, search_term, replace_term)
  IN IF search_term # replace_term /\ Len(search_term) # Len(replace_term)
     THEN _fix_php_serialized_lengths_wordpress(new_data)
     ELSE new_data

\* where an exception may arise inside the try block of
\* _replace_in_php_serialized: in the replacement, or in the length repair
FaultPoints == {"replace", "repair"}

\* the repair is reached only for terms of different length
FaultReachable(fault, search_term, replace_term) ==
  fault = "replace"
    \/ (search_term # replace_term /\ Len(search_term) # Len(replace_term))

\* a handler that returns what the try block had computed so far (what C17
\* rules out)
ReplaceInPhpKeepsPartial(s, search_term, replace_term, fault) ==
  IF fault = "replace" THEN s ELSE StrReplace(s, search_term, replace_term)

\* _replace_in_php_serialized when the step named by fault raises: the
\* except Exception clause returns serialized_data
ReplaceInPhpFaulting(s, search_term, replace_term, fault) ==
  LET serialized_data == s
      raised == FaultReachable(fault, search_term, replace_term)
  IN IF raised THEN serialized_data
     ELSE _replace_in_php_serialized(s, search_term, replace_term)

(***************************************************************************)
(* JSON: json.loads, _replace_in_json_object, json.dumps                   *)
(*                                                                         *)
(* A parsed value is one of                                                *)
(*   [t |-> "str", s |-> characters]     [t |-> "int", n |-> integer]      *)
(*   [t |-> "lit", name |-> "null" | "true" | "false" | "NaN" | ...]       *)
(*   [t |-> "arr", items |-> sequence of values]                           *)
(*   [t |-> "obj", items |-> sequence of [k |-> characters, v |-> value]]  *)
(* A parse result is [st |-> "ok" | "err" | "rec", v |-> value, e |-> end] *)
(* where "err" is json.JSONDecodeError and "rec" is RecursionError.        *)
(* The input alphabet has no '.', 'e', 'E' and no backslash-u, so numbers  *)
(* are integers and \uXXXX escapes do not arise.                           *)
(***************************************************************************)
\* the interpreter's recursion limit (sys.getrecursionlimit()), scaled down
RecursionLimit == 5

\* _replace_in_json_object uses two interpreter frames per container level:
\* its own and the one of the dict/list comprehension
FramesPerLevel == 2

ParseErr == [st |-> "err", v |-> <<>>, e |-> 0]
ParseRec == [st |-> "rec", v |-> <<>>, e |-> 0]
ParseOk(v, e) == [st |-> "ok", v |-> v, e |-> e]

IsContainer(obj) == obj.t \in {"obj", "arr"}

\* the value held by one item of a container
ItemValue(t, item) == IF t = "obj" THEN item.v ELSE item

\* the same item holding another value
ItemWith(t, item, v) == IF t = "obj" THEN [k |-> item.k, v |-> v] ELSE v

RECURSIVE SkipWs(_, _)
\* WHITESPACE = [ \t\n\r]*
SkipWs(s, i) == IF i < Len(s) /\ IsSpace(At(s, i)) THEN SkipWs(s, i + 1) ELSE i

\* the character an escape letter stands for; "" when the escape is invalid
Unescape(c) ==
  CASE c = QUOTE -> QUOTE
    [] c = BSLASH -> BSLASH
    [] c = "/" -> "/"
    [] c = "b" -> "<BS>"
    [] c = "f" -> "<FF>"
    [] c = "n" -> LF
    [] c = "r" -> CR
    [] c = "t" -> "\t"
    [] OTHER -> ""

ControlChars == {LF, CR, "\t", "<BS>", "<FF>"}

RECURSIVE ScanString(_, _, _)
\* scanstring(s, i) in strict mode; i is the index after the opening quote
ScanString(s, i, acc) ==
  IF i >= Len(s) THEN ParseErr
  ELSE IF At(s, i) = QUOTE THEN ParseOk([t |-> "str", s |-> acc], i + 1)
  ELSE IF At(s, i) \in ControlChars THEN ParseErr
  ELSE IF At(s, i) # BSLASH THEN ScanString(s, i + 1, Append(acc, At(s, i)))
  ELSE IF i + 1 >= Len(s) \/ Unescape(At(s, i + 1)) = "" THEN ParseErr
  ELSE ScanString(s, i + 2, Append(acc, Unescape(At(s, i + 1))))

\* NUMBER_RE integer part: -?(0|[1-9]\d*); end index of the match, or -1
NumberEnd(s, i) ==
  LET j == IF i < Len(s) /\ At(s, i) = "-" THEN i + 1 ELSE i
  IN IF j >= Len(s) \/ At(s, j) \notin Digits THEN -1
     ELSE IF At(s, j) = "0" THEN j + 1
     ELSE DigitRunEnd(s, j)

\* the constants scan_once recognises, in its order
Literals ==
  << [name |-> "null", text |-> <<"n", "u", "l", "l">>],
     [name |-> "true", text |-> <<"t", "r", "u", "e">>],
     [name |-> "false", text |-> <<"f", "a", "l", "s", "e">>],
     [name |-> "NaN", text |-> <<"N", "a", "N">>],
     [name |-> "Infinity", text |-> <<"I", "n", "f", "i", "n", "i", "t", "y">>],
     [name |-> "-Infinity", text |-> <<"-", "I", "n", "f", "i", "n", "i", "t", "y">>] >>

\* index in Literals of the constant at position i, or 0
LiteralAt(s, i) ==
  LET hits == {k \in 1..Len(Literals) : StartsWithAt(s, Literals[k].text, i)}
  IN IF hits = {} THEN 0 ELSE CHOOSE k \in hits : \A h \in hits : k <= h

\* a string, constant or number at position i
ScanScalar(s, i) ==
  IF At(s, i) = QUOTE THEN ScanString(s, i + 1, <<>>)
  ELSE IF LiteralAt(s, i) # 0
    THEN ParseOk([t |-> "lit", name |-> Literals[LiteralAt(s, i)].name],
                 i + Len(Literals[LiteralAt(s, i)].text))
  ELSE IF NumberEnd(s, i) # -1
    THEN ParseOk([t |-> "int", n |-> IntParse(Slice(s, i, NumberEnd(s, i)))],
                 NumberEnd(s, i))
  ELSE ParseErr

\* dict insertion: a repeated key keeps its first position and takes the
\* last value
RECURSIVE DictSet(_, _, _)
DictSet(m, k, v) ==
  IF Len(m) = 0 THEN <<[k |-> k, v |-> v]>>
  ELSE IF m[1].k = k THEN <<[k |-> k, v |-> v]>> \o Tail(m)
  ELSE <<m[1]>> \o DictSet(Tail(m), k, v)

Closer(t) == IF t = "obj" THEN "}" ELSE "]"

\* the key of the object member at idx (arrays: nothing to read)
MemberKey(s, idx, t) ==
  IF t = "arr" THEN ParseOk([t |-> "str", s |-> <<>>], idx)
  ELSE IF idx >= Len(s) \/ At(s, idx) # QUOTE THEN ParseErr
  ELSE ScanString(s, idx + 1, <<>>)

\* where the member's value starts: after ':' and whitespace, or -1
ValueStart(s, key, t) ==
  IF t = "arr" THEN key.e
  ELSE IF SkipWs(s, key.e) >= Len(s) \/ At(s, SkipWs(s, key.e)) # ":" THEN -1
  ELSE SkipWs(s, SkipWs(s, key.e) + 1)

RECURSIVE ScanOnce(_, _, _)
RECURSIVE ParseItems(_, _, _, _, _)
RECURSIVE AfterValue(_, _, _, _, _, _)

\* after one item's value r: ',' and the next item, or the closing bracket
AfterValue(s, r, key, d, acc, t) ==
  IF r.st # "ok" THEN r
  ELSE IF SkipWs(s, r.e) >= Len(s) THEN ParseErr
  ELSE IF At(s, SkipWs(s, r.e)) = Closer(t)
    THEN ParseOk([t |-> t,
                  items |-> IF t = "obj" THEN DictSet(acc, key.v.s, r.v) ELSE Append(acc, r.v)],
                 SkipWs(s, r.e) + 1)
  ELSE IF At(s, SkipWs(s, r.e)) # "," THEN ParseErr
  ELSE ParseItems(s, SkipWs(s, SkipWs(s, r.e) + 1), d,
                  IF t = "obj" THEN DictSet(acc, key.v.s, r.v) ELSE Append(acc, r.v), t)

\* _parse_object / _parse_array: idx is at the next item
ParseItems(s, idx, d, acc, t) ==
  IF MemberKey(s, idx, t).st # "ok" THEN ParseErr
  ELSE IF ValueStart(s, MemberKey(s, idx, t), t) = -1 THEN ParseErr
  ELSE AfterValue(s, ScanOnce(s, ValueStart(s, MemberKey(s, idx, t), t), d),
                  MemberKey(s, idx, t), d, acc, t)

\* scan_once at index i with d enclosing containers
ScanOnce(s, i, d) ==
  IF i >= Len(s) THEN ParseErr
  ELSE IF At(s, i) \notin {"{", "["} THEN ScanScalar(s, i)
  ELSE IF d + 1 > RecursionLimit THEN ParseRec
  ELSE IF StartsWithAt(s, <<Closer(IF At(s, i) = "{" THEN "obj" ELSE "arr")>>, SkipWs(s, i + 1))
    THEN ParseOk([t |-> IF At(s, i) = "{" THEN "obj" ELSE "arr", items |-> <<>>],
                 SkipWs(s, i + 1) + 1)
  ELSE ParseItems(s, SkipWs(s, i + 1), d + 1, <<>>, IF At(s, i) = "{" THEN "obj" ELSE "arr")

\* json.loads(s): one value between optional whitespace, nothing after it
LoadsEnd(s, r) ==
  IF r.st # "ok" THEN r
  ELSE IF SkipWs(s, r.e) # Len(s) THEN ParseErr
  ELSE r

JsonLoads(s) == LoadsEnd(s, ScanOnce(s, SkipWs(s, 0), 0))

\* "true" / "false", or "raise" when RecursionError escapes the
\* except (json.JSONDecodeError, ValueError) clause
LoadsOutcome(r) ==
  IF r.st = "ok" THEN "true" ELSE IF r.st = "err" THEN "false" ELSE "raise"

_is_json_data(s) == IF Len(s) = 0 THEN "false" ELSE LoadsOutcome(JsonLoads(s))

RECURSIVE MapItems(_, _, _, _)
RECURSIVE _replace_in_json_object(_, _, _)
\* a comprehension that rewrites the keys as well (what C12 rules out)
MapItemsAndKeys(items, t, search_term, replace_term) ==
  IF Len(items) = 0 THEN <<>>
  ELSE LET v == _replace_in_json_object(ItemValue(t, items[1]), search_term, replace_term)
       IN <<IF t = "obj"
            THEN [k |-> StrReplace(items[1].k, search_term, replace_term), v |-> v]
            ELSE v>>
          \o MapItems(Tail(items), t, search_term, replace_term)

\* [f(x) for x in items] / {k: f(v) for k, v in items}
MapItems(items, t, search_term, replace_term) ==
  IF Len(items) = 0 THEN <<>>
  ELSE <<ItemWith(t, items[1],
                  _replace_in_json_object(ItemValue(t, items[1]), search_term, replace_term))>>
       \o MapItems(Tail(items), t, search_term, replace_term)

_replace_in_json_object(obj, search_term, replace_term) ==
  IF IsContainer(obj)
  THEN [t |-> obj.t, items |-> MapItems(obj.items, obj.t, search_term, replace_term)]
  ELSE IF obj.t = "str" THEN [t |-> "str", s |-> StrReplace(obj.s, search_term, replace_term)]
  ELSE obj

Max(a, b) == IF a > b THEN a ELSE b

RECURSIVE Frames(_)
RECURSIVE MaxFrames(_, _)
MaxFrames(items, t) ==
  IF Len(items) = 0 THEN 0
  ELSE Max(Frames(ItemValue(t, items[1])), MaxFrames(Tail(items), t))

\* interpreter frames the recursion of _replace_in_json_object needs
Frames(obj) ==
  IF IsContainer(obj) THEN FramesPerLevel + MaxFrames(obj.items, obj.t) ELSE 1

\* an escape that lets line breaks through (what C10 rules out)
EscapeCharKeepsBreaks(c) ==
  CASE c = QUOTE -> <<BSLASH, QUOTE>>
    [] c = BSLASH -> <<BSLASH, BSLASH>>
    [] OTHER -> <<c>>

\* escape of one character by json.dumps(ensure_ascii=False)
EscapeChar(c) ==
  CASE c = QUOTE -> <<BSLASH, QUOTE>>
    [] c = BSLASH -> <<BSLASH, BSLASH>>
    [] c = LF -> <<BSLASH, "n">>
    [] c = CR -> <<BSLASH, "r">>
    [] c = "\t" -> <<BSLASH, "t">>
    [] c = "<BS>" -> <<BSLASH, "b">>
    [] c = "<FF>" -> <<BSLASH, "f">>
    [] OTHER -> <<c>>

RECURSIVE EscapeChars(_)
EscapeChars(s) == IF Len(s) = 0 THEN <<>> ELSE EscapeChar(s[1]) \o EscapeChars(Tail(s))

EncodeString(s) == <<QUOTE>> \o EscapeChars(s) \o <<QUOTE>>

LiteralText(name) ==
  Literals[CHOOSE k \in 1..Len(Literals) : Literals[k].name = name].text

\* 'key': before a member's value, nothing before an array item
KeyPrefix(t, item) == IF t = "obj" THEN EncodeString(item.k) \o <<":">> ELSE <<>>

RECURSIVE JsonDumps(_)
RECURSIVE DumpItems(_, _)
\* items joined by the item separator ','; members as key ':' value
DumpItems(items, t) ==
  IF Len(items) = 0 THEN <<>>
  ELSE KeyPrefix(t, items[1]) \o JsonDumps(ItemValue(t, items[1]))
       \o (IF Len(items) = 1 THEN <<>> ELSE <<",">>)
       \o DumpItems(Tail(items), t)

\* json.dumps(obj, ensure_ascii=False, separators=(',', ':'))
JsonDumps(obj) ==
  IF IsContainer(obj)
  THEN (IF obj.t = "obj" THEN <<"{">> ELSE <<"[">>)
       \o DumpItems(obj.items, obj.t) \o <<Closer(obj.t)>>
  ELSE IF obj.t = "str" THEN EncodeString(obj.s)
  ELSE IF obj.t = "int" THEN IntStr(obj.n)
  ELSE LiteralText(obj.name)

\* the path _replace_in_json_data takes after json.loads returned r:
\* "rewrite" (parse, rewrite, dump) or "fallback" (the except Exception clause)
PathAfterLoads(r) ==
  IF r.st # "ok" THEN "fallback"
  ELSE IF Frames(r.v) > RecursionLimit THEN "fallback"
  ELSE "rewrite"

JsonPath(json_data) == PathAfterLoads(JsonLoads(json_data))

\* a fallback that gives the text back as it came (what C16 rules out)
RewriteOrKeep(json_data, r, search_term, replace_term) ==
  IF PathAfterLoads(r) = "rewrite"
  THEN JsonDumps(_replace_in_json_object(r.v, search_term, replace_term))
  ELSE json_data


RewriteOrFallback(json_data, r, search_term, replace_term) ==
  IF PathAfterLoads(r) = "rewrite"
  THEN JsonDumps(_replace_in_json_object(r.v, search_term, replace_term))
  ELSE StrReplace(json_data, search_term, replace_term)

_replace_in_json_data(json_data, search_term, replace_term) ==
  RewriteOrFallback(json_data, JsonLoads(json_data), search_term, replace_term)

(***************************************************************************)
(* Facade: _safe_replace_in_serialized_data                                *)
(***************************************************************************)
\* the facade once _is_php_serialized said no and _is_json_data gave is_json
AfterJsonCheck(is_json, original_value, search_term, replace_term) ==
  IF is_json = "raise"
  THEN [path |-> "raise", raised |-> TRUE, out |-> <<>>]
  ELSE IF is_json = "true"
  THEN [path |-> "json", raised |-> FALSE,
        out |-> _replace_in_json_data(original_value, search_term, replace_term)]
  ELSE [path |-> "plain", raised |-> FALSE,
        out |-> StrReplace(original_value, search_term, replace_term)]

\* a facade without the test for an empty value (what C15 rules out)
SafeReplaceUnguarded(original_value, search_term, replace_term) ==
  IF Len(original_value) = 0
  THEN [path |-> "empty", raised |-> FALSE,
        out |-> StrReplace(original_value, search_term, replace_term)]
  ELSE AfterJsonCheck(_is_json_data(original_value), original_value, search_term, replace_term)

\* [path, raised, out]; with PHPSERIALIZE_AVAILABLE false the PHP branch goes
\* straight to the hand-rolled _replace_in_php_serialized
_safe_replace_in_serialized_data(original_value, search_term, replace_term) ==
  IF Len(original_value) = 0
  THEN [path |-> "empty", raised |-> FALSE, out |-> <<>>]
  ELSE IF _is_php_serialized(original_value) /\ ~PHPSERIALIZE_AVAILABLE
  THEN [path |-> "php", raised |-> FALSE,
        out |-> _replace_in_php_serialized(original_value, search_term, replace_term)]
  ELSE AfterJsonCheck(_is_json_data(original_value), original_value, search_term, replace_term)

(***************************************************************************)
(* Inputs: texts are concatenations of a few fragments                     *)
(***************************************************************************)
MaxPhpFrags == 4
MaxJsonFrags == 3

RECURSIVE Flatten(_)
Flatten(fs) == IF Len(fs) = 0 THEN <<>> ELSE fs[1] \o Flatten(Tail(fs))

SeqsUpTo(S, n) == UNION {[1..k -> S] : k \in 0..n}

\* a:1:{i:0;   s:1:"x";   s:3:"x";   s:3:"
PhpFirst ==
  { <<"a", ":", "1", ":", "{", "i", ":", "0", ";">>,
    <<"s", ":", "1", ":", QUOTE, "x", QUOTE, ";">>,
    <<"s", ":", "3", ":", QUOTE, "x", QUOTE, ";">>,
    <<"s", ":", "3", ":", QUOTE>> }

PhpFrags == PhpFirst \cup { <<"x">>, <<QUOTE, ";">>, <<"}">> }

PhpInputs ==
  {<<>>} \cup
  { h \o Flatten(t) : h \in PhpFirst, t \in SeqsUpTo(PhpFrags, MaxPhpFrags - 1) }

\* {"x":   "x"   [   newline
JsonFirst ==
  { <<"{", QUOTE, "x", QUOTE, ":">>,
    <<QUOTE, "x", QUOTE>>,
    <<"[">>,
    <<LF>> }

\* "\n"   ]   }   ,   1
JsonFrags ==
  JsonFirst \cup
  { <<QUOTE, BSLASH, "n", QUOTE>>, <<"]">>, <<"}">>, <<",">>, <<"1">> }

JsonInputs ==
  { h \o Flatten(t) : h \in JsonFirst, t \in SeqsUpTo(JsonFrags, MaxJsonFrags - 1) }

RECURSIVE Repeat(_, _)
Repeat(f, k) == IF k = 0 THEN <<>> ELSE f \o Repeat(f, k - 1)

\* arrays nested up to one level beyond the recursion limit, closed or not
DeepInputs ==
  { Repeat(<<"[">>, k) \o <<QUOTE, "x", QUOTE>> \o Repeat(<<LF, "]">>, k) :
      k \in 1..(RecursionLimit + 1) }
  \cup { Repeat(<<"[">>, k) : k \in 1..(RecursionLimit + 1) }

\* a:2:{s:1:"k";s:3:"x x";s:1:"c";s:1:"y";}  and  s:3:"x"x";
PhpScenarios ==
  { <<"a", ":", "2", ":", "{">>
      \o <<"s", ":", "1", ":", QUOTE, "k", QUOTE, ";">>
      \o <<"s", ":", "3", ":", QUOTE, "x", " ", "x", QUOTE, ";">>
      \o <<"s", ":", "1", ":", QUOTE, "c", QUOTE, ";">>
      \o <<"s", ":", "1", ":", QUOTE, "y", QUOTE, ";">>
      \o <<"}">>,
    <<"s", ":", "3", ":", QUOTE, "x", QUOTE, "x", QUOTE, ";">> }

\* {"x": "x x", "k": ["x", 1]}
JsonScenarios ==
  { <<"{", QUOTE, "x", QUOTE, ":", " ", QUOTE, "x", " ", "x", QUOTE, ",", " ">>
      \o <<QUOTE, "k", QUOTE, ":", " ", "[", QUOTE, "x", QUOTE, ",", " ", "1", "]", "}">> }

\* a:1:{}  s:1:"x";  i:1;  b:1;  O:1:"x":0:{}  and near misses; JSON scalars
\* and containers; prose
ShapeTexts ==
  { <<"a", ":", "1", ":", "{", "}">>,
    <<"s", ":", "1", ":", QUOTE, "x", QUOTE, ";">>,
    <<"i", ":", "1", ";">>,
    <<"b", ":", "1", ";">>,
    <<"O", ":", "1", ":", QUOTE, "x", QUOTE, ":", "0", ":", "{", "}">>,
    <<"b", ":", "2", ";">>,
    <<"i", ":", ";">>,
    <<"A", ":", "1", ":", "{", "}">>,
    <<"N", "a", "N">>,
    <<"n", "u", "l", "l">>,
    <<"t", "r", "u", "e">>,
    <<"-", "1">>,
    <<QUOTE, "x", QUOTE>>,
    <<"[", "]">>,
    <<"{", "}">>,
    <<"x", " ", "x">> }

Affixes == { <<>>, <<"x">>, <<LF>> }

\* a shape with something, or nothing, before and after it
ShapeInputs == {<<>>} \cup { p \o b \o q : p \in Affixes, b \in ShapeTexts, q \in Affixes }

\* what stands right after a '";': the eight accepted followers and near
\* misses
Followers ==
  { <<"s", ":">>, <<"i", ":">>, <<"b", ":">>, <<"d", ":">>, <<"a", ":">>,
    <<"O", ":">>, <<"N", ";">>, <<"}">>,
    <<"S", ":">>, <<"o", ":">>, <<"N", ":">>, <<"n", ";">>, <<"{">>, <<";">>,
    <<"i", ";">>, <<"s">>, <<QUOTE>>, <<"<">> }

\* s:9:"x";<follower>x";  and  s:9:"x";<follower>
FollowerInputs ==
  { <<"s", ":", "9", ":", QUOTE, "x", QUOTE, ";">> \o f \o t :
      f \in Followers, t \in { <<>>, <<"x", QUOTE, ";">> } }

\* what stands between 's:' and ':': digits, nothing, signs, blanks, letters
LengthFields ==
  { <<"1">>, <<"1", "2">>, <<>>, <<"+", "1">>, <<"-", "1">>, <<" ", "1">>,
    <<"1", " ">>, <<"1", "_", "0">>, <<"x">>, <<"1", "x">>, <<"_", "1">> }

\* s:<field>:"x";   s:<field>:x";   s:<field>   x"s:<field>:"x";}
LengthFieldInputs ==
  UNION { { <<"s", ":">> \o n \o <<":", QUOTE, "x", QUOTE, ";">>,
            <<"s", ":">> \o n \o <<":", "x", QUOTE, ";">>,
            <<"s", ":">> \o n,
            <<"x", QUOTE, "s", ":">> \o n \o <<":", QUOTE, "x", QUOTE, ";", "}">> } :
          n \in LengthFields }

\* <<search, replace>>, the search term possibly empty
ShapePairs ==
  { <<(<<"x">>), (<<"y">>)>>,
    <<(<<>>), (<<"y">>)>> }

\* <<search, replace>>
PhpPairs ==
  { <<(<<"x">>), (<<"y", "y">>)>>,
    <<(<<"x">>), (<<>>)>>,
    <<(<<"x">>), (<<"y">>)>>,
    <<(<<"x">>), (<<"x">>)>>,
    <<(<<"1">>), (<<"2">>)>>,
    <<(<<"z">>), (<<"y", "y">>)>> }

JsonPairs ==
  { <<(<<"x">>), (<<"y", "y">>)>>,
    <<(<<"x">>), (<<QUOTE>>)>>,
    <<(<<"x">>), (<<LF>>)>>,
    <<(<<"z">>), (<<>>)>> }

(***************************************************************************)
(* State machine: one call of one function on one input                    *)
(***************************************************************************)
\* no database work is under way
DbIdle ==
  /\ db = <<>>
  /\ conn = <<>>
  /\ session = <<>>
  /\ run = <<>>
  /\ backup = <<>>

Init ==
  /\ \/ /\ value \in PhpInputs \cup PhpScenarios
        /\ \E p \in PhpPairs : search = p[1] /\ replace = p[2]
     \/ /\ value \in JsonInputs \cup DeepInputs \cup JsonScenarios
        /\ \E p \in JsonPairs : search = p[1] /\ replace = p[2]
     \/ /\ value \in ShapeInputs
        /\ \E p \in ShapePairs : search = p[1] /\ replace = p[2]
     \/ /\ value \in FollowerInputs \cup LengthFieldInputs
        /\ \E p \in ShapePairs : search = p[1] /\ replace = p[2]
  /\ absent \in {a \in BOOLEAN : a => value = <<>>}
  /\ pc = "start"
  /\ op = "none"
  /\ out = <<>>
  /\ DbIdle

Returns(name, result) ==
  /\ pc' = "done"
  /\ op' = name
  /\ out' = result
  /\ UNCHANGED <<value, search, replace, absent>>
  /\ UNCHANGED dbvars

SafeReplaceEmpty ==
  /\ pc = "start"
  /\ LET r == _safe_replace_in_serialized_data(value, search, replace)
     IN r.path = "empty" /\ Returns("safe", r.out)

SafeReplacePhp ==
  /\ pc = "start"
  /\ LET r == _safe_replace_in_serialized_data(value, search, replace)
     IN r.path = "php" /\ Returns("safe", r.out)

SafeReplaceJson ==
  /\ pc = "start"
  /\ LET r == _safe_replace_in_serialized_data(value, search, replace)
     IN r.path = "json" /\ Returns("safe", r.out)

SafeReplacePlain ==
  /\ pc = "start"
  /\ LET r == _safe_replace_in_serialized_data(value, search, replace)
     IN r.path = "plain" /\ Returns("safe", r.out)

\* the RecursionError of json.loads leaves _is_json_data and the facade
SafeReplaceRaises ==
  /\ pc = "start"
  /\ _safe_replace_in_serialized_data(value, search, replace).raised
  /\ pc' = "raised"
  /\ op' = "safe"
  /\ UNCHANGED <<value, search, replace, absent, out>>
  /\ UNCHANGED dbvars

\* str(bool)
BoolText(b) == IF b THEN <<"True">> ELSE <<"False">>

CallIsPhpSerialized ==
  /\ pc = "start"
  /\ Returns("isphp", BoolText(_is_php_serialized(value)))

CallIsJsonData ==
  /\ pc = "start"
  /\ _is_json_data(value) # "raise"
  /\ Returns("isjson", BoolText(_is_json_data(value) = "true"))

\* the RecursionError of json.loads leaves _is_json_data
CallIsJsonDataRaises ==
  /\ pc = "start"
  /\ _is_json_data(value) = "raise"
  /\ pc' = "raised"
  /\ op' = "isjson"
  /\ UNCHANGED <<value, search, replace, absent, out>>
  /\ UNCHANGED dbvars

\* _replace_in_php_serialized with an exception raised inside its try block
CallReplaceInPhpFaults ==
  /\ pc = "start"
  /\ ~absent
  /\ \E fault \in FaultPoints :
       /\ FaultReachable(fault, search, replace)
       /\ Returns("phpfault", ReplaceInPhpFaulting(value, search, replace, fault))

CallReplaceInPhp ==
  /\ pc = "start"
  /\ ~absent
  /\ Returns("php", _replace_in_php_serialized(value, search, replace))

CallFixLengths ==
  /\ pc = "start"
  /\ ~absent
  /\ Returns("fix", _fix_php_serialized_lengths_wordpress(value))

CallReplaceInJson ==
  /\ pc = "start"
  /\ ~absent
  /\ Returns("json", _replace_in_json_data(value, search, replace))

Next ==
  \/ SafeReplaceEmpty
  \/ SafeReplacePhp
  \/ SafeReplaceJson
  \/ SafeReplacePlain
  \/ SafeReplaceRaises
  \/ CallReplaceInPhp
  \/ CallFixLengths
  \/ CallReplaceInJson
  \/ CallIsPhpSerialized
  \/ CallIsJsonData
  \/ CallIsJsonDataRaises
  \/ CallReplaceInPhpFaults

Spec == Init /\ [][Next]_vars

(***************************************************************************)
(* Execute Replace and Undo Last Operation on one table                    *)
(*                                                                         *)
(* The table has the columns k (columns[0], used as pk_column) and c.  A   *)
(* row is [k |-> text, c |-> text]; db.rows is what is committed,          *)
(* conn.rows what the open transaction sees.  search and replace are       *)
(* session.search_term and session.replace_term.                           *)
(***************************************************************************)
MaxRows == 2

\* values of the first column when it is a text column, and when it is not
KeyTexts == { <<"a">>, <<"x">>, <<"b", "x">> }
KeyIds == { <<"1">>, <<"2">>, <<"3">> }

\* values of the second column: c   x   s:1:"x";
CellTexts ==
  { <<"c">>, <<"x">>, <<"s", ":", "1", ":", QUOTE, "x", QUOTE, ";">> }

\* tables of 1..MaxRows rows with distinct keys
Tables(keys) ==
  UNION { { r \in [1..n -> [k : keys, c : CellTexts]] :
              \A i, j \in 1..n : i # j => r[i].k # r[j].k } : n \in 1..MaxRows }

RECURSIVE Picked(_, _)
\* the keys of the rows at the positions in S, in table order
Picked(rows, S) ==
  IF Len(rows) = 0 THEN <<>>
  ELSE (IF Len(rows) \in S THEN Picked(SubSeq(rows, 1, Len(rows) - 1), S) \o <<rows[Len(rows)].k>>
        ELSE Picked(SubSeq(rows, 1, Len(rows) - 1), S))

\* what session.changes_made may hold from an earlier operation
EarlierChanges ==
  { <<>>,
    <<[row_id |-> <<"a">>, column |-> "c", original_value |-> <<"c">>, new_value |-> <<"d">>]>> }

NoBackup == [exists |-> FALSE, changes |-> <<>>, used |-> FALSE]
ClosedConn == [in_tx |-> FALSE, rows |-> <<>>, ended |-> "none", updates |-> 0]
NoRun(rows, s, b) ==
  [phase |-> "fresh", dry_run |-> FALSE, todo |-> <<>>, changes_made |-> <<>>,
   faulted |-> FALSE, skipped |-> FALSE,
   before |-> [rows |-> rows, changes_made |-> s.changes_made, backup |-> b]]

InitDb ==
  /\ value = <<>>
  /\ absent = FALSE
  /\ out = <<>>
  /\ search = <<"x">>
  /\ replace \in { <<"y">>, <<>> }
  /\ pc = "menu"
  /\ op = "none"
  /\ \E key_is_text \in BOOLEAN :
       \E rows \in Tables(IF key_is_text THEN KeyTexts ELSE KeyIds) :
         \E S \in SUBSET (1..Len(rows)) :
           /\ db = [key_is_text |-> key_is_text, rows |-> rows]
           /\ \E has_results \in BOOLEAN, earlier \in EarlierChanges :
                session = [has_results |-> has_results,
                           selected_rows |-> Picked(rows, S),
                           backup_file |-> FALSE,
                           changes_made |-> earlier]
  /\ conn = ClosedConn
  /\ backup = NoBackup
  /\ run = NoRun(db.rows, session, backup)

\* text_columns of the table (lines 776-788)
TextColumns(key_is_text) == IF key_is_text THEN <<"k", "c">> ELSE <<"c">>

\* position of the row that SELECT ... WHERE pk_column = row_id and fetchone()
\* return, or 0
FetchOne(rows, row_id) ==
  IF \E i \in 1..Len(rows) : rows[i].k = row_id
  THEN CHOOSE i \in 1..Len(rows) :
         rows[i].k = row_id /\ \A j \in 1..(i - 1) : rows[j].k # row_id
  ELSE 0

\* "if original_value and session.search_term in str(original_value)"
CellMatches(original_value, search_term) ==
  Len(original_value) > 0 /\ Contains(original_value, search_term)

RECURSIVE RowChanges(_, _, _, _, _)
\* row_changes of one fetched row: one entry per text column whose value the
\* replacement changes
RowChanges(row, row_id, cols, search_term, replace_term) ==
  IF Len(cols) = 0 THEN <<>>
  ELSE LET original_value == row[cols[1]]
           new_value == _safe_replace_in_serialized_data(original_value, search_term,
                                                         replace_term).out
       IN (IF CellMatches(original_value, search_term) /\ new_value # original_value
           THEN <<[row_id |-> row_id, column |-> cols[1],
                   original_value |-> original_value, new_value |-> new_value]>>
           ELSE <<>>)
          \o RowChanges(row, row_id, Tail(cols), search_term, replace_term)

\* _safe_replace_in_serialized_data raises on a cell of the row
RowRaises(row, cols, search_term, replace_term) ==
  \E n \in 1..Len(cols) :
    /\ CellMatches(row[cols[n]], search_term)
    /\ _safe_replace_in_serialized_data(row[cols[n]], search_term, replace_term).raised

RECURSIVE SetColumns(_, _)
\* the row after SET col = new_value for every entry of changes
SetColumns(row, changes) ==
  IF Len(changes) = 0 THEN row
  ELSE SetColumns([row EXCEPT ![changes[1].column] = changes[1].new_value], Tail(changes))

\* UPDATE ... SET ... WHERE pk_column = row_id
UpdateWhere(rows, row_id, changes) ==
  [i \in 1..Len(rows) |->
     IF rows[i].k = row_id THEN SetColumns(rows[i], changes) ELSE rows[i]]

\* an execute that sends its UPDATE whatever dry_run says (what C18 rules out)
SendsUpdateAlways(row_changes, dry_run) == Len(row_changes) > 0

\* "if updates and not dry_run"
SendsUpdate(row_changes, dry_run) == Len(row_changes) > 0 /\ ~dry_run

\* a handler that commits what was done before the exception (what C19 rules
\* out)
CommitOnException(c, rows) == c.rows

\* "except Exception as e: transaction.rollback()": the committed rows after
\* it
RollbackOnException(c, rows) == rows

\* UPDATE ... SET column = original_value WHERE pk_column = row_id
RestoreWhere(rows, change) ==
  [i \in 1..Len(rows) |->
     IF rows[i].k = change.row_id
     THEN [rows[i] EXCEPT ![change.column] = change.original_value]
     ELSE rows[i]]

ToMenu(phase) ==
  /\ pc' = "menu"
  /\ run' = [run EXCEPT !.phase = phase]

\* the three early returns of _execute_replace (lines 697-710)
ExecuteRefused ==
  /\ pc = "menu"
  /\ run.phase = "fresh"
  /\ ~session.has_results \/ Len(session.selected_rows) = 0
  /\ \E dry_run \in BOOLEAN :
       /\ pc' = "menu"
       /\ op' = "execute"
       /\ run' = [run EXCEPT !.phase = "refused", !.dry_run = dry_run]
  /\ UNCHANGED <<value, search, replace, absent, out, db, conn, session, backup>>

\* the user does not confirm the real run (lines 745-748)
ExecuteCancelled ==
  /\ pc = "menu"
  /\ run.phase = "fresh"
  /\ session.has_results
  /\ Len(session.selected_rows) > 0
  /\ pc' = "menu"
  /\ op' = "execute"
  /\ run' = [run EXCEPT !.phase = "refused", !.dry_run = FALSE]
  /\ UNCHANGED <<value, search, replace, absent, out, db, conn, session, backup>>

\* summary, confirmation and backup file of a real run, then
\* connection.begin() (lines 712-760)
ExecuteBegin ==
  /\ pc = "menu"
  /\ run.phase = "fresh"
  /\ session.has_results
  /\ Len(session.selected_rows) > 0
  /\ \E dry_run \in BOOLEAN :
       /\ run' = [run EXCEPT !.phase = "running", !.dry_run = dry_run,
                             !.todo = session.selected_rows, !.changes_made = <<>>]
       /\ IF dry_run
          THEN UNCHANGED <<session, backup>>
          ELSE /\ session' = [session EXCEPT !.backup_file = TRUE]
               /\ backup' = [exists |-> TRUE, changes |-> <<>>, used |-> FALSE]
  /\ conn' = [in_tx |-> TRUE, rows |-> db.rows, ended |-> "none", updates |-> 0]
  /\ pc' = "columns"
  /\ op' = "execute"
  /\ UNCHANGED <<value, search, replace, absent, out, db>>

\* get_inspector().get_columns(table_name) returns the columns
ExecuteColumns ==
  /\ pc = "columns"
  /\ pc' = "rows"
  /\ UNCHANGED <<value, search, replace, absent, out, op, db, conn, session, run, backup>>

\* get_columns raises: the error is printed and the table is skipped
\* (lines 790-792)
ExecuteColumnsFail ==
  /\ pc = "columns"
  /\ pc' = "rows"
  /\ run' = [run EXCEPT !.todo = <<>>, !.skipped = TRUE]
  /\ UNCHANGED <<value, search, replace, absent, out, op, db, conn, session, backup>>

\* one turn of "for row_id in row_ids" (lines 794-842)
ExecuteRow ==
  /\ pc = "rows"
  /\ op = "execute"
  /\ Len(run.todo) > 0
  /\ LET row_id == Head(run.todo)
         at == FetchOne(conn.rows, row_id)
         cols == TextColumns(db.key_is_text)
     IN IF at = 0
        THEN /\ run' = [run EXCEPT !.todo = Tail(run.todo)]
             /\ UNCHANGED conn
        ELSE /\ ~RowRaises(conn.rows[at], cols, search, replace)
             /\ LET row_changes == RowChanges(conn.rows[at], row_id, cols, search, replace)
                IN IF SendsUpdate(row_changes, run.dry_run)
                   THEN /\ conn' = [conn EXCEPT
                                      !.rows = UpdateWhere(conn.rows, row_id, row_changes),
                                      !.updates = conn.updates + 1]
                        /\ run' = [run EXCEPT !.todo = Tail(run.todo),
                                              !.changes_made = run.changes_made \o row_changes]
                   ELSE /\ run' = [run EXCEPT !.todo = Tail(run.todo)]
                        /\ UNCHANGED conn
  /\ UNCHANGED <<value, search, replace, absent, out, pc, op, db, session, backup>>

\* the row fetch, the replacement or the UPDATE raises: the inner except
\* clause rolls back, the outer one prints (lines 862-867)
ExecuteRowFault ==
  /\ pc = "rows"
  /\ op = "execute"
  /\ Len(run.todo) > 0
  /\ db' = [db EXCEPT !.rows = RollbackOnException(conn, db.rows)]
  /\ conn' = [conn EXCEPT !.in_tx = FALSE, !.ended = "rollback"]
  /\ pc' = "menu"
  /\ run' = [run EXCEPT !.phase = "failed", !.faulted = TRUE]
  /\ UNCHANGED <<value, search, replace, absent, out, op, session, backup>>

\* end of a real run: changes written to the backup file, commit,
\* session.changes_made (lines 844-857)
ExecuteFinish ==
  /\ pc = "rows"
  /\ op = "execute"
  /\ Len(run.todo) = 0
  /\ ~run.dry_run
  /\ backup' = IF session.backup_file /\ Len(run.changes_made) > 0
               THEN [backup EXCEPT !.changes = run.changes_made]
               ELSE backup
  /\ db' = [db EXCEPT !.rows = conn.rows]
  /\ conn' = [conn EXCEPT !.in_tx = FALSE, !.ended = "commit"]
  /\ session' = [session EXCEPT !.changes_made = run.changes_made]
  /\ ToMenu("executed")
  /\ UNCHANGED <<value, search, replace, absent, out, op>>

\* the backup write or the commit raises (lines 846-855, 862-867); the commit
\* comes after the backup write
ExecuteFinishFault ==
  /\ pc = "rows"
  /\ op = "execute"
  /\ Len(run.todo) = 0
  /\ ~run.dry_run
  /\ \E at_commit \in BOOLEAN :
       backup' = IF at_commit /\ session.backup_file /\ Len(run.changes_made) > 0
                 THEN [backup EXCEPT !.changes = run.changes_made]
                 ELSE backup
  /\ db' = [db EXCEPT !.rows = RollbackOnException(conn, db.rows)]
  /\ conn' = [conn EXCEPT !.in_tx = FALSE, !.ended = "rollback"]
  /\ pc' = "menu"
  /\ run' = [run EXCEPT !.phase = "failed", !.faulted = TRUE]
  /\ UNCHANGED <<value, search, replace, absent, out, op, session>>

\* end of a dry run: transaction.rollback() (lines 858-860)
ExecuteDryFinish ==
  /\ pc = "rows"
  /\ op = "execute"
  /\ Len(run.todo) = 0
  /\ run.dry_run
  /\ conn' = [conn EXCEPT !.in_tx = FALSE, !.ended = "rollback"]
  /\ ToMenu("dry_done")
  /\ UNCHANGED <<value, search, replace, absent, out, op, db, session, backup>>

\* no backup file, Cancel, no changes in the file, or no confirmation
\* (lines 1164-1231)
UndoRefused ==
  /\ pc = "menu"
  /\ run.phase \in {"executed", "failed"}
  /\ op' = "undo"
  /\ ToMenu("undo_refused")
  /\ UNCHANGED <<value, search, replace, absent, out, db, conn, session, backup>>

\* the backup file of the run is chosen and confirmed; connection.begin()
\* (lines 1197-1239)
UndoBegin ==
  /\ pc = "menu"
  /\ run.phase \in {"executed", "failed"}
  /\ backup.exists
  /\ ~backup.used
  /\ Len(backup.changes) > 0
  /\ conn' = [in_tx |-> TRUE, rows |-> db.rows, ended |-> "none", updates |-> 0]
  /\ run' = [run EXCEPT !.phase = "undoing", !.todo = backup.changes]
  /\ pc' = "rows"
  /\ op' = "undo"
  /\ UNCHANGED <<value, search, replace, absent, out, db, session, backup>>

\* one turn of "for change in changes" (lines 1241-1259)
UndoChange ==
  /\ pc = "rows"
  /\ op = "undo"
  /\ Len(run.todo) > 0
  /\ conn' = [conn EXCEPT !.rows = RestoreWhere(conn.rows, Head(run.todo)),
                          !.updates = conn.updates + 1]
  /\ run' = [run EXCEPT !.todo = Tail(run.todo)]
  /\ UNCHANGED <<value, search, replace, absent, out, pc, op, db, session, backup>>

\* commit, and the backup file renamed to .json.used (lines 1261-1265)
UndoCommit ==
  /\ pc = "rows"
  /\ op = "undo"
  /\ Len(run.todo) = 0
  /\ db' = [db EXCEPT !.rows = conn.rows]
  /\ conn' = [conn EXCEPT !.in_tx = FALSE, !.ended = "commit"]
  /\ backup' = [backup EXCEPT !.used = TRUE]
  /\ ToMenu("undone")
  /\ UNCHANGED <<value, search, replace, absent, out, op, session>>

\* get_columns, an UPDATE or the commit of the undo raises (lines 1267-1272)
UndoFault ==
  /\ pc = "rows"
  /\ op = "undo"
  /\ db' = [db EXCEPT !.rows = RollbackOnException(conn, db.rows)]
  /\ conn' = [conn EXCEPT !.in_tx = FALSE, !.ended = "rollback"]
  /\ pc' = "menu"
  /\ run' = [run EXCEPT !.phase = "undo_failed", !.faulted = TRUE]
  /\ UNCHANGED <<value, search, replace, absent, out, op, session, backup>>

NextDb ==
  \/ ExecuteRefused
  \/ ExecuteCancelled
  \/ ExecuteBegin
  \/ ExecuteColumns
  \/ ExecuteColumnsFail
  \/ ExecuteRow
  \/ ExecuteRowFault
  \/ ExecuteFinish
  \/ ExecuteFinishFault
  \/ ExecuteDryFinish
  \/ UndoRefused
  \/ UndoBegin
  \/ UndoChange
  \/ UndoCommit
  \/ UndoFault

SpecDb == InitDb /\ [][NextDb]_vars

(***************************************************************************)
(* The length repair, one loop iteration at a time                         *)
(*                                                                         *)
(* value is serialized_data, out is ''.join(result) so far, run holds the  *)
(* locals i, content_start, search_pos and content_end.  pc is "outer" at  *)
(* the test of the outer while, "inner" at the test of the inner while,    *)
(* "close" at the test of content_end after it.                            *)
(***************************************************************************)
MaxScanFrags == 2

ScanInputs ==
  { h \o Flatten(t) : h \in PhpFirst, t \in SeqsUpTo(PhpFrags, MaxScanFrags) }
    \cup PhpScenarios \cup FollowerInputs \cup LengthFieldInputs

InitScan ==
  /\ value \in ScanInputs
  /\ search = <<>>
  /\ replace = <<>>
  /\ absent = FALSE
  /\ pc = "outer"
  /\ op = "scan"
  /\ out = <<>>
  /\ run = [i |-> 0, content_start |-> 0, search_pos |-> 0, content_end |-> -1]
  /\ db = <<>>
  /\ conn = <<>>
  /\ session = <<>>
  /\ backup = <<>>

ScanFrame == UNCHANGED <<value, search, replace, absent, op, db, conn, session, backup>>

\* a search cursor put back to the opening quote after a rejected '";' (what
\* C26 rules out)
RestartSearch(content_start, quote_semicolon_pos) == content_start

\* search_pos = quote_semicolon_pos + 1
NextSearchPos(content_start, quote_semicolon_pos) == quote_semicolon_pos + 1

\* not 's:', no ':' after it, no valid length, or no quote: copy the character
ScanCopy ==
  /\ pc = "outer"
  /\ run.i < Len(value)
  /\ Header(value, run.i) = -1
  /\ out' = out \o <<At(value, run.i)>>
  /\ run' = [run EXCEPT !.i = run.i + 1]
  /\ pc' = "outer"
  /\ ScanFrame

\* 's:<length>:"' found: start the search for the closing '";'
ScanOpenToken ==
  /\ pc = "outer"
  /\ run.i < Len(value)
  /\ Header(value, run.i) # -1
  /\ run' = [run EXCEPT !.content_start = Header(value, run.i),
                        !.search_pos = Header(value, run.i),
                        !.content_end = -1]
  /\ pc' = "inner"
  /\ UNCHANGED out
  /\ ScanFrame

\* the inner while ends without an accepted '";'
InnerExhausted ==
  /\ pc = "inner"
  /\ \/ run.search_pos >= Len(value)
     \/ Find(value, <<QUOTE, ";">>, run.search_pos) = -1
  /\ pc' = "close"
  /\ UNCHANGED <<out, run>>
  /\ ScanFrame

\* the '";' found is at the end of the data or before a valid element
InnerAccept ==
  /\ pc = "inner"
  /\ run.search_pos < Len(value)
  /\ LET quote_semicolon_pos == Find(value, <<QUOTE, ";">>, run.search_pos)
         after_pos == quote_semicolon_pos + 2
     IN /\ quote_semicolon_pos # -1
        /\ after_pos >= Len(value) \/ ValidFollower(value, after_pos)
        /\ run' = [run EXCEPT !.content_end = quote_semicolon_pos]
  /\ pc' = "close"
  /\ UNCHANGED out
  /\ ScanFrame

\* the '";' found is followed by something else: continue searching
InnerReject ==
  /\ pc = "inner"
  /\ run.search_pos < Len(value)
  /\ LET quote_semicolon_pos == Find(value, <<QUOTE, ";">>, run.search_pos)
         after_pos == quote_semicolon_pos + 2
     IN /\ quote_semicolon_pos # -1
        /\ after_pos < Len(value)
        /\ ~ValidFollower(value, after_pos)
        /\ run' = [run EXCEPT
                     !.search_pos = NextSearchPos(run.content_start, quote_semicolon_pos)]
  /\ pc' = "inner"
  /\ UNCHANGED out
  /\ ScanFrame

\* content_end == -1: copy the character and continue
ScanCopyUnclosed ==
  /\ pc = "close"
  /\ run.content_end = -1
  /\ out' = out \o <<At(value, run.i)>>
  /\ run' = [run EXCEPT !.i = run.i + 1]
  /\ pc' = "outer"
  /\ ScanFrame

\* rebuild the string with the correct length and move past it
ScanRebuild ==
  /\ pc = "close"
  /\ run.content_end # -1
  /\ out' = out \o RebuildToken(Slice(value, run.content_start, run.content_end))
  /\ run' = [run EXCEPT !.i = run.content_end + 2]
  /\ pc' = "outer"
  /\ ScanFrame

\* return ''.join(result)
ScanReturn ==
  /\ pc = "outer"
  /\ run.i >= Len(value)
  /\ pc' = "done"
  /\ UNCHANGED <<out, run>>
  /\ ScanFrame

NextScan ==
  \/ ScanCopy
  \/ ScanOpenToken
  \/ InnerExhausted
  \/ InnerAccept
  \/ InnerReject
  \/ ScanCopyUnclosed
  \/ ScanRebuild
  \/ ScanReturn

\* the loop is sequential code: it takes its next step whenever it has one
SpecScan == InitScan /\ [][NextScan]_vars /\ WF_vars(NextScan)

(***************************************************************************)
(* The menu loop of search_and_replace_menu over one WordPress table       *)
(*                                                                         *)
(* search and replace are session.search_term and session.replace_term;    *)
(* session holds selected_tables (a list of table names), search_results   *)
(* (the rows found in the table, <<>> when the dict has no entry) and      *)
(* selected_rows (the ids listed for the table).  pc is "top" at the head  *)
(* of the while loop, "menu" at _show_main_menu, "exit" after the return.  *)
(* run keeps the answers given to the prompts of the last handler and the  *)
(* arguments of the last search.  The texts of the model have no upper     *)
(* case letters the search terms could match, so lower() changes nothing.  *)
(***************************************************************************)
TableName == <<"wp_t">>

\* rows (1, x), (2, s:1:"x";) with an integer key; rows (a, x), (a:b, x) and
\* rows (a, c), (a:b, x) with a text key
MenuTables ==
  { [key_is_text |-> FALSE,
     rows |-> << [k |-> <<"1">>, c |-> <<"x">>],
                 [k |-> <<"2">>, c |-> <<"s", ":", "1", ":", QUOTE, "x", QUOTE, ";">>] >>],
    [key_is_text |-> TRUE,
     rows |-> << [k |-> <<"a">>, c |-> <<"x">>],
                 [k |-> <<"a", ":", "b">>, c |-> <<"x">>] >>],
    [key_is_text |-> TRUE,
     rows |-> << [k |-> <<"a">>, c |-> <<"c">>],
                 [k |-> <<"a", ":", "b">>, c |-> <<"x">>] >>] }

\* what the user types at "Enter the text to search for"
TypedSearch == { <<>>, <<" ">>, <<"x">>, <<" ", "x", " ">>, <<"z">> }

\* what the user types at "Enter the replacement text"
TypedReplace == { <<>>, <<"y">> }

RowActions ==
  { "Keep all rows selected", "Deselect specific rows",
    "Select only specific rows", "Skip this table entirely" }

\* a loop that shows the menu without looking at the search term (what C21
\* rules out)
ShowMenuAlways(search_term) == "menu"

\* "while True: if not session.search_term: ..."
LoopTop(search_term) == IF Len(search_term) = 0 THEN "top" ELSE "menu"

IdleRun ==
  [phase |-> "none", dry_run |-> FALSE, action |-> "none", picked |-> {},
   found_term |-> <<>>, found_tables |-> <<>>]

InitMenu ==
  /\ value = <<>>
  /\ absent = FALSE
  /\ out = <<>>
  /\ search = <<>>
  /\ replace = <<>>
  /\ pc = LoopTop(search)
  /\ op = "none"
  /\ db \in MenuTables
  /\ conn = ClosedConn
  /\ backup = NoBackup
  /\ session = [selected_tables |-> <<>>, search_results |-> <<>>,
                selected_rows |-> <<>>, backup_file |-> FALSE, changes_made |-> <<>>]
  /\ run = IdleRun

MenuFrame == UNCHANGED <<value, absent, out, conn>>

\* the record of a handler that ended in phase; the arguments of the last
\* search stay
Ended(phase) == [IdleRun EXCEPT !.phase = phase, !.found_term = run.found_term,
                                !.found_tables = run.found_tables]

\* str.strip()
Strip(s) == RStrip(LStrip(s))

\* the text _get_search_term works with after the default and strip()
EnteredSearchTerm(typed, default_text) ==
  Strip(IF Len(Strip(typed)) = 0 /\ Len(default_text) > 0 THEN default_text ELSE typed)

\* "if not search_term: ... return False"
SearchTermRejected(search_term) == Len(search_term) = 0

\* the choices _show_main_menu offers
MenuChoices(replace_term, s) ==
  { "Configure Search Term", "Select Tables", "Set Replace Text",
    "Undo Last Operation", "Exit" }
  \cup (IF Len(s.selected_tables) > 0 THEN {"Find Matches"} ELSE {})
  \cup (IF Len(s.selected_tables) > 0 /\ Len(s.search_results) > 0
        THEN {"Preview Matches", "Configure Row Selection"} ELSE {})
  \cup (IF Len(s.selected_tables) > 0 /\ Len(s.search_results) > 0 /\ Len(replace_term) > 0
        THEN {"Execute Replace (Dry Run)", "Execute Replace"} ELSE {})

Chosen(choice) ==
  /\ pc = "menu"
  /\ choice \in MenuChoices(replace, session)
  /\ op' = choice

\* _get_search_term: the term is set and the dependent data reset, or False
\* is returned and the menu function returns
GetSearchTerm ==
  \/ \E typed \in TypedSearch :
       LET search_term == EnteredSearchTerm(typed, search)
       IN IF SearchTermRejected(search_term)
          THEN /\ pc' = "exit"
               /\ run' = Ended("refused")
               /\ UNCHANGED <<search, session>>
          ELSE /\ search' = search_term
               /\ session' = [session EXCEPT !.search_results = <<>>, !.selected_rows = <<>>]
               /\ run' = Ended("ok")
               /\ pc' = LoopTop(search_term)
  \/ /\ pc' = "exit"
     /\ run' = Ended("cancelled")
     /\ UNCHANGED <<search, session>>

\* the prompt at the head of the loop while no search term is set
AskSearchTermAtTop ==
  /\ pc = "top"
  /\ Len(search) = 0
  /\ op' = "Configure Search Term"
  /\ GetSearchTerm
  /\ UNCHANGED <<replace, db, backup>>
  /\ MenuFrame

ConfigureSearchTerm ==
  /\ Chosen("Configure Search Term")
  /\ GetSearchTerm
  /\ UNCHANGED <<replace, db, backup>>
  /\ MenuFrame

\* _select_tables: the checkbox answer, or no answer, or an exception of the
\* inspector
SelectTables ==
  /\ Chosen("Select Tables")
  /\ \/ \E selected \in SUBSET {"All WordPress Tables", "None", "wp_t"} :
          /\ session' = [session EXCEPT
                           !.selected_tables =
                              IF "All WordPress Tables" \in selected THEN <<TableName>>
                              ELSE IF "None" \in selected THEN <<>>
                              ELSE IF "wp_t" \in selected THEN <<TableName>> ELSE <<>>,
                           !.search_results = <<>>,
                           !.selected_rows = <<>>]
          /\ run' = Ended("ok")
     \/ /\ run' = Ended("cancelled")
        /\ UNCHANGED session
  /\ pc' = LoopTop(search)
  /\ UNCHANGED <<search, replace, db, backup>>
  /\ MenuFrame

RECURSIVE MatchingRows(_, _, _)
\* SELECT * FROM table WHERE col LIKE %term% OR ... over the text columns
MatchingRows(rows, cols, search_term) ==
  IF Len(rows) = 0 THEN <<>>
  ELSE (IF \E n \in 1..Len(cols) : Contains(rows[1][cols[n]], search_term)
        THEN <<rows[1]>> ELSE <<>>)
       \o MatchingRows(Tail(rows), cols, search_term)

\* [getattr(row, pk_column) for row in rows]
KeysOfRows(rows) == [n \in 1..Len(rows) |-> rows[n].k]

\* _find_matches: the search runs; the table is skipped when its columns or
\* its query fail; the row selection is not initialized when get_columns
\* fails afterwards; nothing but search_results = {} happens when the
\* connection fails
FindMatches ==
  /\ Chosen("Find Matches")
  /\ \/ /\ session' = [session EXCEPT
                         !.search_results = MatchingRows(db.rows, TextColumns(db.key_is_text), search),
                         !.selected_rows = KeysOfRows(MatchingRows(db.rows, TextColumns(db.key_is_text), search))]
        /\ run' = [IdleRun EXCEPT !.phase = "ok", !.found_term = search,
                                  !.found_tables = session.selected_tables]
     \/ /\ session' = [session EXCEPT !.search_results = <<>>, !.selected_rows = <<>>]
        /\ run' = [IdleRun EXCEPT !.phase = "skipped", !.found_term = search,
                                  !.found_tables = session.selected_tables]
     \/ /\ session' = [session EXCEPT
                         !.search_results = MatchingRows(db.rows, TextColumns(db.key_is_text), search),
                         !.selected_rows = <<>>]
        /\ run' = [IdleRun EXCEPT !.phase = "unselected", !.found_term = search,
                                  !.found_tables = session.selected_tables]
     \/ /\ session' = [session EXCEPT !.search_results = <<>>]
        /\ run' = Ended("failed")
  /\ pc' = LoopTop(search)
  /\ UNCHANGED <<search, replace, db, backup>>
  /\ MenuFrame

\* _preview_matches prints
PreviewMatches ==
  /\ Chosen("Preview Matches")
  /\ run' = Ended("ok")
  /\ pc' = LoopTop(search)
  /\ UNCHANGED <<search, replace, db, backup, session>>
  /\ MenuFrame

\* _create_row_summary for values short enough to be shown whole
RowSummary(row, search_term) ==
  (IF Len(row.k) > 0 /\ Contains(row.k, search_term)
   THEN <<"k", ":", " ">> \o row.k ELSE <<>>)
  \o (IF Len(row.k) > 0 /\ Contains(row.k, search_term)
         /\ Len(row.c) > 0 /\ Contains(row.c, search_term)
      THEN <<" ", "|", " ">> ELSE <<>>)
  \o (IF Len(row.c) > 0 /\ Contains(row.c, search_term)
      THEN <<"c", ":", " ">> \o row.c ELSE <<>>)

\* f"ID {pk_value}: {row_summary}"
RowChoice(row, search_term) ==
  <<"I", "D", " ">> \o row.k \o <<":", " ">> \o RowSummary(row, search_term)

\* choice.split(":")[0].replace("ID ", ""), then int() when it does not raise
\* (an int prints as its digits)
ChoiceId(choice) ==
  LET colon == Find(choice, <<":">>, 0)
      id_part == StrReplace(IF colon = -1 THEN choice ELSE Slice(choice, 0, colon),
                            <<"I", "D", " ">>, <<>>)
  IN IF IntValid(id_part) THEN IntStr(IntParse(id_part)) ELSE id_part

RECURSIVE ChosenIds(_, _, _, _)
\* the ids read back from the choices ticked (positions in picked)
ChosenIds(rows, n, picked, search_term) ==
  IF n > Len(rows) THEN <<>>
  ELSE (IF n \in picked THEN <<ChoiceId(RowChoice(rows[n], search_term))>> ELSE <<>>)
       \o ChosenIds(rows, n + 1, picked, search_term)

RECURSIVE Without(_, _)
\* [row_id for row_id in current_selected if row_id not in deselected_ids]
Without(current_selected, deselected_ids) ==
  IF Len(current_selected) = 0 THEN <<>>
  ELSE (IF \E n \in 1..Len(deselected_ids) : deselected_ids[n] = current_selected[1]
        THEN <<>> ELSE <<current_selected[1]>>)
       \o Without(Tail(current_selected), deselected_ids)

\* _configure_row_selection for the table with results: the action chosen,
\* then the rows ticked; no answer to the first prompt skips the table, no
\* answer to the deselect prompt changes nothing, no answer to the select
\* prompt empties the selection
ConfigureRowSelection ==
  /\ Chosen("Configure Row Selection")
  /\ \/ \E action \in RowActions, picked \in SUBSET (1..Len(session.search_results)) :
          /\ action \in {"Keep all rows selected", "Skip this table entirely"} => picked = {}
          /\ run' = [Ended("ok") EXCEPT !.action = action, !.picked = picked]
          /\ session' =
               [session EXCEPT !.selected_rows =
                  CASE action = "Keep all rows selected" -> session.selected_rows
                    [] action = "Skip this table entirely" -> <<>>
                    [] action = "Deselect specific rows" ->
                         Without(session.selected_rows,
                                 ChosenIds(session.search_results, 1, picked, search))
                    [] action = "Select only specific rows" ->
                         ChosenIds(session.search_results, 1, picked, search)]
     \/ /\ run' = [Ended("cancelled") EXCEPT !.action = "none", !.picked = {}]
        /\ UNCHANGED session
     \/ /\ run' = [Ended("cancelled") EXCEPT !.action = "Deselect specific rows", !.picked = {}]
        /\ UNCHANGED session
     \/ /\ run' = [Ended("cancelled") EXCEPT !.action = "Select only specific rows", !.picked = {}]
        /\ session' = [session EXCEPT !.selected_rows = <<>>]
  /\ pc' = LoopTop(search)
  /\ UNCHANGED <<search, replace, db, backup>>
  /\ MenuFrame

\* _get_replace_term: empty input keeps a non-empty default
SetReplaceText ==
  /\ Chosen("Set Replace Text")
  /\ \/ \E typed \in TypedReplace :
          /\ replace' = IF Len(typed) = 0 /\ Len(replace) > 0 THEN replace ELSE typed
          /\ run' = Ended("ok")
     \/ /\ run' = Ended("cancelled")
        /\ UNCHANGED replace
  /\ pc' = LoopTop(search)
  /\ UNCHANGED <<search, db, backup, session>>
  /\ MenuFrame

RECURSIVE RunRows(_, _, _, _, _, _)
\* "for row_id in row_ids" in one transaction: the rows it leaves and the
\* changes it lists
RunRows(rows, row_ids, cols, search_term, replace_term, dry_run) ==
  IF Len(row_ids) = 0 THEN [rows |-> rows, changes_made |-> <<>>]
  ELSE LET row_id == Head(row_ids)
           at == FetchOne(rows, row_id)
           row_changes == IF at = 0 THEN <<>>
                          ELSE RowChanges(rows[at], row_id, cols, search_term, replace_term)
           sent == SendsUpdate(row_changes, dry_run)
           rest == RunRows(IF sent THEN UpdateWhere(rows, row_id, row_changes) ELSE rows,
                           Tail(row_ids), cols, search_term, replace_term, dry_run)
       IN [rows |-> rest.rows,
           changes_made |-> (IF sent THEN row_changes ELSE <<>>) \o rest.changes_made]

\* _execute_replace(session, dry_run): refused, not confirmed, run and
\* committed (rolled back when dry), or rolled back on an exception
ExecuteWith(dry_run) ==
  /\ Chosen(IF dry_run THEN "Execute Replace (Dry Run)" ELSE "Execute Replace")
  /\ LET done == RunRows(db.rows, session.selected_rows, TextColumns(db.key_is_text),
                         search, replace, dry_run)
     IN IF Len(session.search_results) = 0 \/ Len(session.selected_rows) = 0
        THEN /\ run' = [Ended("refused") EXCEPT !.dry_run = dry_run]
             /\ UNCHANGED <<db, backup, session>>
        ELSE \/ /\ ~dry_run
                /\ run' = [Ended("cancelled") EXCEPT !.dry_run = dry_run]
                /\ UNCHANGED <<db, backup, session>>
             \/ /\ dry_run
                /\ run' = [Ended("dry_done") EXCEPT !.dry_run = dry_run]
                /\ UNCHANGED <<db, backup, session>>
             \/ /\ ~dry_run
                /\ run' = [Ended("committed") EXCEPT !.dry_run = dry_run]
                /\ db' = [db EXCEPT !.rows = done.rows]
                /\ backup' = [exists |-> TRUE, changes |-> done.changes_made, used |-> FALSE]
                /\ session' = [session EXCEPT !.backup_file = TRUE,
                                              !.changes_made = done.changes_made]
             \/ /\ run' = [Ended("failed") EXCEPT !.dry_run = dry_run]
                /\ db' = [db EXCEPT !.rows = RollbackOnException(conn, db.rows)]
                /\ IF dry_run
                   THEN UNCHANGED <<backup, session>>
                   ELSE /\ backup' = [exists |-> TRUE, changes |-> <<>>, used |-> FALSE]
                        /\ session' = [session EXCEPT !.backup_file = TRUE]
  /\ pc' = LoopTop(search)
  /\ UNCHANGED <<search, replace>>
  /\ MenuFrame

ExecuteReplace == \E dry_run \in BOOLEAN : ExecuteWith(dry_run)

\* "Exit", or no answer to the menu prompt
ExitMenu ==
  /\ Chosen("Exit")
  /\ pc' = "exit"
  /\ run' = Ended("exit")
  /\ UNCHANGED <<search, replace, db, backup, session>>
  /\ MenuFrame

NextMenu ==
  \/ AskSearchTermAtTop
  \/ ConfigureSearchTerm
  \/ SelectTables
  \/ FindMatches
  \/ PreviewMatches
  \/ ConfigureRowSelection
  \/ SetReplaceText
  \/ ExecuteReplace
  \/ ExitMenu

SpecMenu == InitMenu /\ [][NextMenu]_vars

(***************************************************************************)
(* Vocabulary of the properties                                            *)
(***************************************************************************)
Done(name) == pc = "done" /\ op = name

RECURSIVE TokensFrom(_, _)
TokensFrom(s, i) ==
  IF i >= Len(s) THEN <<>>
  ELSE IF Candidate(s, i).tok
    THEN <<[start |-> i] @@ Candidate(s, i)>> \o TokensFrom(s, Candidate(s, i).content_end + 2)
  ELSE TokensFrom(s, i + 1)

\* the string tokens of s, as the left-to-right boundary scan resolves them
ResolvedTokens(s) == TokensFrom(s, 0)

TokenText(s, tk) == Slice(s, tk.start, tk.content_end + 2)
TokenContent(s, tk) == Slice(s, tk.content_start, tk.content_end)
TokenDeclared(s, tk) == IntParse(Slice(s, tk.length_start, tk.length_end))

AllLengthsCorrect(s) ==
  \A k \in 1..Len(ResolvedTokens(s)) :
    TokenDeclared(s, ResolvedTokens(s)[k]) = Len(TokenContent(s, ResolvedTokens(s)[k]))

RECURSIVE LiteralReplace(_, _, _)
\* text with the leftmost occurrence of old replaced by new, and so on in
\* what follows that occurrence (old non-empty)
LiteralReplace(s, old, new) ==
  IF Find(s, old, 0) = -1 THEN s
  ELSE Slice(s, 0, Find(s, old, 0)) \o new
       \o LiteralReplace(Slice(s, Find(s, old, 0) + Len(old), Len(s)), old, new)

HasNewline(s) == \E k \in 1..Len(s) : s[k] \in {LF, CR}

\* s:<n>:"<c>";
MkToken(n, c) == <<"s", ":">> \o NatStr(n) \o <<":", QUOTE>> \o c \o <<QUOTE, ";">>

\* s is one string token s:L:"C"; with L in plain decimal
SingleToken(s) ==
  /\ StartsWithAt(s, <<"s", ":">>, 0)
  /\ DigitRunEnd(s, 2) > 2
  /\ Slice(s, 2, DigitRunEnd(s, 2)) = NatStr(IntParse(Slice(s, 2, DigitRunEnd(s, 2))))
  /\ StartsWithAt(s, <<":", QUOTE>>, DigitRunEnd(s, 2))
  /\ Len(s) - 2 >= DigitRunEnd(s, 2) + 2
  /\ StartsWithAt(s, <<QUOTE, ";">>, Len(s) - 2)

SingleL(s) == IntParse(Slice(s, 2, DigitRunEnd(s, 2)))
SingleC(s) == Slice(s, DigitRunEnd(s, 2) + 2, Len(s) - 2)

\* every occurrence of search in the token s lies inside its content
SearchOnlyInContent(s) ==
  /\ Len(search) > 0
  /\ \A q \in 0..(Len(s) - 1) :
       StartsWithAt(s, search, q)
         => q >= DigitRunEnd(s, 2) + 2 /\ q + Len(search) <= Len(s) - 2

\* the case of C2: a single token, search in its content and nowhere else, and
\* the replaced content free of '";'
C2_Case ==
  /\ Done("safe")
  /\ SingleToken(value)
  /\ SearchOnlyInContent(value)
  /\ Contains(SingleC(value), search)
  /\ ~Contains(LiteralReplace(SingleC(value), search, replace), <<QUOTE, ";">>)

C2_NewContent == LiteralReplace(SingleC(value), search, replace)

C2_Growth ==
  SingleL(value) = Len(SingleC(value))
    => Len(C2_NewContent)
         = SingleL(value) + CountFrom(SingleC(value), search, 0) * (Len(replace) - Len(search))

RECURSIVE PhpValueEnd(_, _)
RECURSIVE PhpEntriesEnd(_, _, _)
\* end of n values read from i the way PHP's unserialize reads them, or -1
PhpEntriesEnd(s, i, n) ==
  IF n = 0 THEN i
  ELSE IF PhpValueEnd(s, i) = -1 THEN -1
  ELSE PhpEntriesEnd(s, PhpValueEnd(s, i), n - 1)

PhpAfterArray(s, e) == IF e # -1 /\ StartsWithAt(s, <<"}">>, e) THEN e + 1 ELSE -1

\* end of the value at i under PHP's grammar, where a string token's content
\* is exactly its declared number of characters; -1 when there is none
PhpValueEnd(s, i) ==
  IF StartsWithAt(s, <<"N", ";">>, i) THEN i + 2
  ELSE IF DigitRunEnd(s, i + 2) = i + 2 THEN -1
  ELSE IF StartsWithAt(s, <<"i", ":">>, i) \/ StartsWithAt(s, <<"b", ":">>, i)
    THEN IF StartsWithAt(s, <<";">>, DigitRunEnd(s, i + 2)) THEN DigitRunEnd(s, i + 2) + 1 ELSE -1
  ELSE IF StartsWithAt(s, <<"s", ":">>, i)
    THEN IF /\ StartsWithAt(s, <<":", QUOTE>>, DigitRunEnd(s, i + 2))
            /\ StartsWithAt(s, <<QUOTE, ";">>,
                 DigitRunEnd(s, i + 2) + 2 + IntParse(Slice(s, i + 2, DigitRunEnd(s, i + 2))))
         THEN DigitRunEnd(s, i + 2) + 4 + IntParse(Slice(s, i + 2, DigitRunEnd(s, i + 2)))
         ELSE -1
  ELSE IF StartsWithAt(s, <<"a", ":">>, i) /\ StartsWithAt(s, <<":", "{">>, DigitRunEnd(s, i + 2))
    THEN PhpAfterArray(s, PhpEntriesEnd(s, DigitRunEnd(s, i + 2) + 2,
                                        2 * IntParse(Slice(s, i + 2, DigitRunEnd(s, i + 2)))))
  ELSE -1

\* s is one value of PHP's serialization format, every declared length right
WellFormedPhp(s) == Len(s) > 0 /\ PhpValueEnd(s, 0) = Len(s)

RECURSIVE StripFrom(_, _)
StripFrom(s, i) ==
  IF i >= Len(s) THEN <<>>
  ELSE IF Candidate(s, i).tok
    THEN <<"s", ":", ":", QUOTE>>
         \o Slice(s, Candidate(s, i).content_start, Candidate(s, i).content_end + 2)
         \o StripFrom(s, Candidate(s, i).content_end + 2)
  ELSE <<At(s, i)>> \o StripFrom(s, i + 1)

\* s without the length fields of its resolved string tokens
StripLengths(s) == StripFrom(s, 0)

(***************************************************************************)
(* C1 .. C10                                                               *)
(***************************************************************************)
\* C1 (as claimed): after _safe_replace_in_serialized_data on a value
\* classified PhpSerialized, with a non-empty search, every string token of
\* the output declares the character count of its content; stated here for
\* the inputs whose declared lengths were all correct before the call.
C1_LengthCorrectness ==
  (/\ Done("safe")
   /\ _is_php_serialized(value)
   /\ Len(search) > 0
   /\ AllLengthsCorrect(value))
    => AllLengthsCorrect(out)

C3_JsonRoundTrip ==
  (Done("safe") /\ JsonLoads(value).st = "ok")
    => /\ JsonLoads(out).st = "ok"
       /\ JsonLoads(out).v = _replace_in_json_object(JsonLoads(value).v, search, replace)

\* C4 (as claimed): _safe_replace_in_serialized_data never raises to its
\* caller.
C4_NeverRaises == pc # "raised"

\* C5: for text classified PlainText the facade returns the text with every
\* occurrence of search, taken left to right, replaced by replace.
C5_PlainTextLiteral ==
  (Done("safe") /\ Len(search) > 0 /\ ~_is_php_serialized(value) /\ _is_json_data(value) = "false")
    => out = LiteralReplace(value, search, replace)

\* plain text with two or more occurrences and a replacement of another length
C5_Witness ==
  /\ Done("safe")
  /\ ~_is_php_serialized(value)
  /\ _is_json_data(value) = "false"
  /\ CountFrom(value, search, 0) >= 2
  /\ Len(replace) # Len(search)
  /\ out # value

\* C6 (as claimed): the length repair returns already-correct PHP-serialized
\* data unchanged, whatever its string contents hold.
C6_RepairKeepsCorrectData ==
  (Done("fix") /\ WellFormedPhp(value)) => out = value

\* C7 (as claimed): a string token whose content has no occurrence of search
\* is unchanged in the output when no other token changed, and in an array
\* every token without the search term is left untouched; stated here for the
\* inputs whose declared lengths are all correct.
C7_UntouchedTokens ==
  (/\ Done("safe")
   /\ _is_php_serialized(value)
   /\ Len(search) > 0
   /\ AllLengthsCorrect(value)
   /\ Len(ResolvedTokens(out)) = Len(ResolvedTokens(value)))
    => \A k \in 1..Len(ResolvedTokens(value)) :
         (/\ ~Contains(TokenContent(value, ResolvedTokens(value)[k]), search)
          /\ \/ MatchArray(value)
             \/ \A j \in 1..Len(ResolvedTokens(value)) :
                  j # k => TokenText(out, ResolvedTokens(out)[j])
                             = TokenText(value, ResolvedTokens(value)[j]))
           => TokenText(out, ResolvedTokens(out)[k]) = TokenText(value, ResolvedTokens(value)[k])

\* C8: the length repair changes only the length fields of the tokens it
\* resolves: without those fields, input and output are the same text, and
\* the output has the same tokens.
C8_OnlyLengthFieldsChange ==
  Done("fix")
    => /\ StripLengths(out) = StripLengths(value)
       /\ Len(ResolvedTokens(out)) = Len(ResolvedTokens(value))

\* an array whose string token had its length rewritten
C8_Witness ==
  /\ Done("fix")
  /\ MatchArray(value)
  /\ Len(ResolvedTokens(value)) >= 1
  /\ out # value

\* C9 (as claimed): _replace_in_php_serialized returns text unchanged when
\* search = replace and when neither search nor replace occurs in text.
C9_NoOpReturnsText ==
  (/\ Done("php")
   /\ \/ search = replace
      \/ ~Contains(value, search) /\ ~Contains(value, replace))
    => out = value

\* C10 (as claimed): the output of _replace_in_json_data has no line feed and
\* no carriage return, for every input.
C10_NoNewlinesAsClaimed == Done("json") => ~HasNewline(out)

\* C10 (amended): the output of _replace_in_json_data has no line feed and no
\* carriage return whenever it is the re-serialized tree; the fallback output
\* is the literal replacement on text, which keeps those of text and replace.
C10_NoNewlines ==
  /\ (Done("json") /\ JsonPath(value) = "rewrite") => ~HasNewline(out)
  /\ (Done("json") /\ JsonPath(value) = "fallback" /\ Len(search) > 0)
       => out = LiteralReplace(value, search, replace)

\* a raw newline between tokens and a newline put into a string leaf
C10_Witness ==
  /\ Done("json")
  /\ JsonPath(value) = "rewrite"
  /\ HasNewline(value)
  /\ replace = <<LF>>
  /\ Contains(value, search)
  /\ out # value

(***************************************************************************)
(* C11 .. C17                                                              *)
(***************************************************************************)
RECURSIVE OuterWhitespaceFrom(_, _, _)
\* s has a whitespace character outside its JSON strings, from position i on
OuterWhitespaceFrom(s, i, in_string) ==
  IF i >= Len(s) THEN FALSE
  ELSE IF in_string /\ At(s, i) = BSLASH THEN OuterWhitespaceFrom(s, i + 2, in_string)
  ELSE IF At(s, i) = QUOTE THEN OuterWhitespaceFrom(s, i + 1, ~in_string)
  ELSE (~in_string /\ IsSpace(At(s, i))) \/ OuterWhitespaceFrom(s, i + 1, in_string)

\* C11 (as claimed): for valid JSON input the output of _replace_in_json_data
\* is the compact serialization of the rewritten tree, with no whitespace
\* outside strings.
C11_CompactSerialization ==
  (Done("json") /\ JsonLoads(value).st = "ok")
    => /\ out = JsonDumps(_replace_in_json_object(JsonLoads(value).v, search, replace))
       /\ ~OuterWhitespaceFrom(out, 0, FALSE)

RECURSIVE KeysOf(_)
RECURSIVE KeysOfItems(_, _)
KeysOfItems(items, t) ==
  IF Len(items) = 0 THEN <<>>
  ELSE (IF t = "obj" THEN <<items[1].k>> ELSE <<>>)
       \o KeysOf(ItemValue(t, items[1]))
       \o KeysOfItems(Tail(items), t)

\* the object keys of a parsed value, in document order, at every depth
KeysOf(obj) == IF IsContainer(obj) THEN KeysOfItems(obj.items, obj.t) ELSE <<>>

\* the case of C12: the rewrite completes on an object with search in a key
C12_Case ==
  /\ Done("json")
  /\ Len(search) > 0
  /\ JsonPath(value) = "rewrite"
  /\ \E k \in 1..Len(KeysOf(JsonLoads(value).v)) :
       Contains(KeysOf(JsonLoads(value).v)[k], search)

\* C12 (as claimed): an object key containing search appears in the output
\* of _replace_in_json_data with every occurrence replaced.
C12_KeysReplacedAsClaimed ==
  C12_Case
    => /\ Len(KeysOf(JsonLoads(out).v)) = Len(KeysOf(JsonLoads(value).v))
       /\ \A k \in 1..Len(KeysOf(JsonLoads(value).v)) :
            KeysOf(JsonLoads(out).v)[k]
              = LiteralReplace(KeysOf(JsonLoads(value).v)[k], search, replace)

\* C12 (amended): when the rewrite completes, every object key of the output
\* is the key of the input, character for character, whether or not it
\* contains search; only string values are rewritten.
C12_KeysKept ==
  C12_Case
    => /\ JsonLoads(out).st = "ok"
       /\ KeysOf(JsonLoads(out).v) = KeysOf(JsonLoads(value).v)

\* a member whose key and value both hold search: the value alone is rewritten
C12_Witness ==
  /\ C12_Case
  /\ search # replace
  /\ out # value
  /\ KeysOf(JsonLoads(out).v) = KeysOf(JsonLoads(value).v)
  /\ Contains(value, <<":", " ", QUOTE, "x">>)

\* the text spells one of the five shapes from its first to its last character
\* (d, q, d2: where the parts of the shape begin)
WholeArray(s) ==
  \E d \in 3..Len(s) :
    /\ Slice(s, 0, 2) = <<"a", ":">>
    /\ AllDigits(Slice(s, 2, d))
    /\ Slice(s, d, d + 2) = <<":", "{">>
    /\ Len(s) >= d + 3
    /\ s[Len(s)] = "}"

WholeString(s) ==
  \E d \in 3..Len(s) :
    /\ Slice(s, 0, 2) = <<"s", ":">>
    /\ AllDigits(Slice(s, 2, d))
    /\ Slice(s, d, d + 2) = <<":", QUOTE>>
    /\ Len(s) >= d + 4
    /\ Slice(s, Len(s) - 2, Len(s)) = <<QUOTE, ";">>

WholeInteger(s) ==
  /\ Len(s) >= 4
  /\ Slice(s, 0, 2) = <<"i", ":">>
  /\ AllDigits(Slice(s, 2, Len(s) - 1))
  /\ s[Len(s)] = ";"

WholeBoolean(s) ==
  s \in { <<"b", ":", "0", ";">>, <<"b", ":", "1", ";">> }

WholeObject(s) ==
  \E d \in 3..Len(s), q \in 3..Len(s), d2 \in 3..Len(s) :
    /\ Slice(s, 0, 2) = <<"O", ":">>
    /\ AllDigits(Slice(s, 2, d))
    /\ Slice(s, d, d + 2) = <<":", QUOTE>>
    /\ q >= d + 2
    /\ Slice(s, q, q + 2) = <<QUOTE, ":">>
    /\ d2 > q + 2
    /\ AllDigits(Slice(s, q + 2, d2))
    /\ Slice(s, d2, d2 + 2) = <<":", "{">>
    /\ Len(s) >= d2 + 3
    /\ s[Len(s)] = "}"

WholeShape(s) ==
  WholeArray(s) \/ WholeString(s) \/ WholeInteger(s) \/ WholeBoolean(s) \/ WholeObject(s)

\* C13 (as claimed): _is_php_serialized(text) is true exactly when the whole
\* text, first to last character, spells one of the five shapes; false for
\* empty and absent input and for text with characters before or after.
C13_WholeTextShape ==
  Done("isphp") => (out = BoolText(TRUE) <=> (~absent /\ WholeShape(value)))

RECURSIVE NonFinite(_)
RECURSIVE NonFiniteItems(_, _)
NonFiniteItems(items, t) ==
  IF Len(items) = 0 THEN FALSE
  ELSE NonFinite(ItemValue(t, items[1])) \/ NonFiniteItems(Tail(items), t)

\* the parsed value holds NaN, Infinity or -Infinity, which json.loads reads
\* and the JSON grammar does not have
NonFinite(obj) ==
  IF IsContainer(obj) THEN NonFiniteItems(obj.items, obj.t)
  ELSE obj.t = "lit" /\ obj.name \in {"NaN", "Infinity", "-Infinity"}

\* value is a JSON document whose nesting the parser reached the end of
ValidJson(s) == JsonLoads(s).st = "ok" /\ ~NonFinite(JsonLoads(s).v)

\* value is a closed nest of arrays around one string, deeper than the parser
\* can follow
DeepValidJson(s) ==
  \E k \in (RecursionLimit + 1)..Len(s) :
    s = Repeat(<<"[">>, k) \o <<QUOTE, "x", QUOTE>> \o Repeat(<<LF, "]">>, k)

\* C14 (as claimed): _is_json_data returns, and returns True exactly for the
\* texts that are valid JSON documents; no text is accepted both by it and by
\* _is_php_serialized.
C14_JsonIffValid ==
  (op = "isjson" /\ pc # "start")
    => /\ pc = "done"
       /\ out = BoolText(TRUE) <=> (ValidJson(value) \/ DeepValidJson(value))
       /\ ~(out = BoolText(TRUE) /\ _is_php_serialized(value))

\* C15: _safe_replace_in_serialized_data returns "" when value is None or the
\* empty string, for every search and replace, the empty search included.
C15_EmptyValue ==
  (op = "safe" /\ pc # "start" /\ (absent \/ Len(value) = 0))
    => pc = "done" /\ out = <<>>

\* an empty value with an empty search term, which a replacement would turn
\* into the replace term
C15_Witness ==
  /\ Done("safe")
  /\ Len(value) = 0
  /\ Len(search) = 0
  /\ Len(replace) > 0
  /\ out = <<>>

\* C16: given text that does not parse as JSON, _replace_in_json_data returns,
\* and returns the text with every occurrence of search replaced by replace.
C16_ParseFailureFallback ==
  (op = "json" /\ pc # "start" /\ JsonLoads(value).st # "ok" /\ Len(search) > 0)
    => pc = "done" /\ out = LiteralReplace(value, search, replace)

\* text that json.loads rejects with JSONDecodeError, holding the search term
C16_Witness ==
  /\ Done("json")
  /\ JsonLoads(value).st = "err"
  /\ Contains(value, search)
  /\ search # replace
  /\ out # value

\* C17: when an exception arises inside _replace_in_php_serialized, in the
\* replacement or in the length repair, the function returns, and returns the
\* original text, not the replaced or the repaired one.
C17_FaultReturnsOriginal ==
  (op = "phpfault" /\ pc # "start") => pc = "done" /\ out = value

\* a fault in the length repair, after a replacement that changed the text
C17_Witness ==
  /\ Done("phpfault")
  /\ FaultReachable("repair", search, replace)
  /\ Contains(value, search)
  /\ StrReplace(value, search, replace) # value
  /\ out = value

(***************************************************************************)
(* C18 .. C20                                                              *)
(***************************************************************************)
\* a selected row of the table as it was before the run holds the search term
\* in a text column
SelectedRowMatches ==
  \E i \in 1..Len(run.before.rows) :
    /\ \E n \in 1..Len(session.selected_rows) :
         session.selected_rows[n] = run.before.rows[i].k
    /\ \/ CellMatches(run.before.rows[i].c, search)
       \/ db.key_is_text /\ CellMatches(run.before.rows[i].k, search)

\* C18: a dry run of _execute_replace, at every point of it and however it
\* ends, has sent no UPDATE, has left the committed table, the backup file
\* (none is created) and session.changes_made as they were, and ends its
\* transaction, if it began one, with rollback.
C18_DryRunChangesNothing ==
  (op = "execute" /\ run.dry_run)
    => /\ conn.updates = 0
       /\ db.rows = run.before.rows
       /\ backup = run.before.backup
       /\ ~backup.exists
       /\ ~session.backup_file
       /\ session.changes_made = run.before.changes_made
       /\ run.phase \in {"dry_done", "failed"} => conn.ended = "rollback"
       /\ conn.ended # "commit"

\* a finished dry run over a selected row that a real run would have updated
C18_Witness ==
  /\ op = "execute"
  /\ run.dry_run
  /\ run.phase = "dry_done"
  /\ ~run.skipped
  /\ SelectedRowMatches
  /\ conn.ended = "rollback"

\* the cell after the replacement of a real run
ReplacedCell(v) ==
  IF CellMatches(v, search)
  THEN _safe_replace_in_serialized_data(v, search, replace).out
  ELSE v

\* the table with every selected row rewritten in all its text columns
AllRowsReplaced(rows) ==
  [i \in 1..Len(rows) |->
     IF \E n \in 1..Len(session.selected_rows) : session.selected_rows[n] = rows[i].k
     THEN [k |-> IF db.key_is_text THEN ReplacedCell(rows[i].k) ELSE rows[i].k,
           c |-> ReplacedCell(rows[i].c)]
     ELSE rows[i]]

\* C19: a real run of _execute_replace is atomic.  While it runs nothing of it
\* is committed; when it ends without an exception, all its row updates are
\* committed together; when the row fetch, an update, the backup write or the
\* commit raises, the transaction is rolled back, the committed table is as
\* before the run and session.changes_made keeps its value.
C19_ExecuteIsAtomic ==
  (op = "execute" /\ ~run.dry_run /\ run.phase \in {"running", "executed", "failed"})
    => /\ run.phase = "running" => db.rows = run.before.rows
       /\ run.phase = "executed"
            => /\ conn.ended = "commit"
               /\ db.rows = (IF run.skipped THEN run.before.rows
                             ELSE AllRowsReplaced(run.before.rows))
               /\ session.changes_made = run.changes_made
       /\ run.phase = "failed"
            => /\ run.faulted
               /\ conn.ended = "rollback"
               /\ db.rows = run.before.rows
               /\ session.changes_made = run.before.changes_made

\* an exception after an UPDATE had been sent in the transaction
C19_Witness ==
  /\ op = "execute"
  /\ ~run.dry_run
  /\ run.phase = "failed"
  /\ conn.updates > 0
  /\ conn.rows # db.rows
  /\ db.rows = run.before.rows

\* C20 (as claimed): after a committed real run, Undo Last Operation on the
\* backup file of that run, committed in its turn, leaves every cell of the
\* table with the value it had before the run.
C20_UndoRestoresAll ==
  (op = "undo" /\ run.phase = "undone" /\ ~run.faulted) => db.rows = run.before.rows

(***************************************************************************)
(* C23 .. C28: the length-repair pass and textual no-ops                   *)
(***************************************************************************)
IsCloser(s, q) == StartsWithAt(s, <<QUOTE, ";">>, q)

ClaimedFollowers ==
  { <<"s", ":">>, <<"i", ":">>, <<"b", ":">>, <<"d", ":">>, <<"a", ":">>,
    <<"O", ":">>, <<"N", ";">>, <<"}">> }

\* the '";' at q is followed by a listed follower or by the end of the text
AcceptedCloser(s, q) ==
  /\ IsCloser(s, q)
  /\ \/ q + 2 >= Len(s)
     \/ \E f \in ClaimedFollowers : StartsWithAt(s, f, q + 2)

AcceptedClosers(s, content_start) ==
  { q \in content_start..(Len(s) - 2) : AcceptedCloser(s, q) }

Least(S) == CHOOSE q \in S : \A r \in S : q <= r

\* C23: in the length repair, the closing delimiter of a token is the
\* leftmost '";' after its opening quote that is followed by s:, i:, b:, d:,
\* a:, O:, N;, } or the end of the text; there is a token exactly when such a
\* '";' exists, and every earlier '";' stays inside the emitted content.
C23_LeftmostAcceptedCloser ==
  Done("fix") =>
    /\ \A i \in 0..(Len(value) - 1) :
         Header(value, i) # -1 =>
           /\ Candidate(value, i).tok <=> AcceptedClosers(value, Header(value, i)) # {}
           /\ Candidate(value, i).tok =>
                Candidate(value, i).content_end = Least(AcceptedClosers(value, Header(value, i)))
    /\ Len(ResolvedTokens(out)) = Len(ResolvedTokens(value))
    /\ \A k \in 1..Len(ResolvedTokens(value)) :
         TokenContent(out, ResolvedTokens(out)[k])
           = TokenContent(value, ResolvedTokens(value)[k])

\* a token whose content keeps a rejected '";', with its length rewritten
C23_Witness ==
  /\ Done("fix")
  /\ out # value
  /\ \E k \in 1..Len(ResolvedTokens(value)) :
       /\ \E q \in ResolvedTokens(value)[k].content_start
                     ..(ResolvedTokens(value)[k].content_end - 1) :
            IsCloser(value, q) /\ ~AcceptedCloser(value, q)
       /\ Contains(TokenContent(out, ResolvedTokens(out)[k]), <<QUOTE, ";">>)

\* 's:' at i is followed by one or more decimal digits, then ':', then '"'
DigitHeader(s, i) ==
  /\ StartsWithAt(s, <<"s", ":">>, i)
  /\ DigitRunEnd(s, i + 2) > i + 2
  /\ StartsWithAt(s, <<":", QUOTE>>, DigitRunEnd(s, i + 2))

\* C24 (as claimed): the length repair treats 's:' as a string token only
\* when digits, ':' and '"' follow it; at every other 's:' it copies one
\* character and resumes the scan at the next one.
C24_TokenOnlyAfterDigits ==
  Done("fix") =>
    \A i \in 0..(Len(value) - 1) :
      (StartsWithAt(value, <<"s", ":">>, i) /\ ~DigitHeader(value, i))
        => /\ ~Candidate(value, i).tok
           /\ FixFrom(value, i) = <<At(value, i)>> \o FixFrom(value, i + 1)

\* C25: when a candidate 's:<length>:"' has no valid closing delimiter, the
\* repair copies it through and goes on: the output ends with the input from
\* that candidate on, unchanged.
C25_UnclosedCandidateCopied ==
  Done("fix") =>
    \A i \in 0..(Len(value) - 1) :
      (Header(value, i) # -1 /\ AcceptedClosers(value, Header(value, i)) = {})
        => /\ Len(out) >= Len(value) - i
           /\ Slice(out, Len(out) - (Len(value) - i), Len(out))
                = Slice(value, i, Len(value))

\* an unclosed candidate after a token whose length was rewritten
C25_Witness ==
  /\ Done("fix")
  /\ out # value
  /\ \E i \in 1..(Len(value) - 1) :
       /\ Header(value, i) # -1
       /\ AcceptedClosers(value, Header(value, i)) = {}
       /\ i >= Len(TokenText(value, ResolvedTokens(value)[1]))

\* C27: the length repair applied to its own output changes nothing.
C27_RepairIsProjection ==
  Done("fix") => _fix_php_serialized_lengths_wordpress(out) = out

\* text with two tokens, at least one of them rewritten
C27_Witness ==
  /\ Done("fix")
  /\ Len(ResolvedTokens(value)) >= 2
  /\ out # value
  /\ _fix_php_serialized_lengths_wordpress(out) = out

\* C28 (as claimed): when search does not occur in value, or replace equals
\* search, _safe_replace_in_serialized_data returns value unchanged, whatever
\* the kind of value.
C28_NoOpReturnsValue ==
  (Done("safe") /\ (~Contains(value, search) \/ replace = search)) => out = value

(***************************************************************************)
(* C26: termination of the length repair                                   *)
(***************************************************************************)
\* what one step of the scan does to the two cursors
ScanStepAdvances ==
  /\ run'.i >= run.i
  /\ (pc = "outer" /\ pc' = "outer") => run'.i = run.i + 1
  /\ (pc = "close" /\ run.content_end = -1) => run'.i = run.i + 1
  /\ (pc = "close" /\ run.content_end # -1)
       => run'.i = run.content_end + 2 /\ run'.i > run.i
  /\ (pc = "inner" /\ pc' = "inner")
       => run'.search_pos > run.search_pos /\ run'.search_pos > run.content_start
  /\ pc' = "inner" => run'.search_pos >= run'.content_start

\* C26: the length repair terminates on every input: each outer iteration
\* moves i forward, by one on a copy and past the closing '";' on a rewritten
\* token, and each rejected '";' moves the search cursor forward.
C26_ScanTerminates ==
  /\ [][ScanStepAdvances]_vars
  /\ <>(pc = "done")

\* the scan has returned after rejecting a '";' and rewriting a token
C26_Witness ==
  /\ pc = "done"
  /\ op = "scan"
  /\ run.i >= Len(value)
  /\ run.content_end # -1
  /\ run.search_pos > run.content_start
  /\ out # value

\* the scan, taken step by step, returns what the function returns
ScanAgrees ==
  (pc = "done" /\ op = "scan") => out = _fix_php_serialized_lengths_wordpress(value)

(***************************************************************************)
(* C21, C22, C29, C30: the menu                                            *)
(***************************************************************************)
ExecuteChoices == {"Execute Replace (Dry Run)", "Execute Replace"}

\* C21: whatever the menu operations before, session.search_term is not
\* empty when the menu is shown and when Find Matches or Execute Replace
\* (dry or real) run, so _safe_replace_in_serialized_data is never called
\* with an empty search term.
C21_SearchTermNeverEmpty ==
  /\ pc = "menu" => Len(search) > 0
  /\ op \in (ExecuteChoices \cup {"Find Matches"}) => Len(search) > 0

\* a real run that changed the table, on a term typed with blanks around it
\* or not
C21_Witness ==
  /\ op = "Execute Replace"
  /\ run.phase = "committed"
  /\ Len(session.changes_made) > 0
  /\ search = <<"x">>

\* C22 (as claimed): with tables selected, matches found and the replacement
\* text set to the empty string, the main menu offers Execute Replace and
\* Execute Replace (Dry Run).
C22_EmptyReplaceReachesExecute ==
  (/\ pc = "menu"
   /\ op = "Set Replace Text"
   /\ run.phase = "ok"
   /\ replace = <<>>
   /\ Len(session.selected_tables) > 0
   /\ Len(session.search_results) > 0)
    => ExecuteChoices \subseteq MenuChoices(replace, session)

\* the keys of the rows of search_results ticked in the last row prompt
PickedKeys == { session.search_results[n].k : n \in run.picked }

\* the row prompt just answered leaves the row with this key out
LeftOut(k) ==
  \/ run.action = "Skip this table entirely"
  \/ run.action = "Deselect specific rows" /\ k \in PickedKeys
  \/ run.action = "Select only specific rows" /\ k \notin PickedKeys

\* C29 (as claimed): an execute that follows Configure Row Selection leaves
\* unchanged every row deselected, every row not chosen in "Select only
\* specific rows", and every row of a table skipped entirely.
C29_ExecuteKeepsUnselectedRows ==
  [][(/\ pc = "menu"
      /\ op = "Configure Row Selection"
      /\ run.phase = "ok"
      /\ op' \in ExecuteChoices)
       => \A j \in 1..Len(db.rows) : LeftOut(db.rows[j].k) => db'.rows[j] = db.rows[j]]_vars

\* C30 (as claimed): non-empty search_results come from Find Matches run
\* with the current search term and the current table selection, and every
\* id in selected_rows is the key of a row in search_results.
C30_SelectionFollowsSearch ==
  /\ Len(session.search_results) > 0
       => run.found_term = search /\ run.found_tables = session.selected_tables
  /\ \A n \in 1..Len(session.selected_rows) :
       \E r \in 1..Len(session.search_results) :
         session.search_results[r].k = session.selected_rows[n]

====
